---- MODULE Spec2Model ----
(***************************************************************************)
(* Verification model of the vehicle-telematics update pipeline:           *)
(*   - pkg/batch DefaultBatchProcessor (intake queue, pending buffer,      *)
(*     flush worker, retry / per-entity fallback, broadcast hand-off),     *)
(*   - internal/websocket Manager (broadcast channel, coordinating loop),  *)
(*   - pkg/telemetry SmartRateLimiter (per-vehicle admission window).      *)
(* Vehicle IDs are the integers 1..NumVehicles; time stamps are logical.   *)
(***************************************************************************)
EXTENDS Integers, Sequences, FiniteSets, TLC

(* ------------------------------ bounds -------------------------------- *)
\* number of distinct vehicle IDs
NumVehicles == 2
\* number of AddUpdate calls in one behaviour, against any repository
MaxAdds == 2
\* number of AddUpdate calls in one behaviour, against a repository that never fails
MaxAddsReliable == 3
MaxAddsLive == 2
\* largest MaxBatchSize configured (construction or SetBatchSize)
MaxBatchSizeBound == 2
\* config.RetryAttempts
RetryAttemptsBound == 1
\* capacity of Manager.broadcast (1000 in the source, scaled down)
BroadcastCap == 1

Vehicles == 1..NumVehicles

(* --------------------- VehicleUpdateData values ----------------------- *)
\* a nil pointer field of VehicleUpdateData
Absent == -1
\* a nil *string
AbsentStr == "<nil>"

\* the sparse field sets callers submit (Timestamp is filled in by AddUpdate's caller)
FieldChoices ==
    { [FuelLevel |-> 5,      Location |-> Absent, Speed |-> Absent, Status |-> AbsentStr, Odometer |-> Absent],
      [FuelLevel |-> Absent, Location |-> Absent, Speed |-> 60,     Status |-> AbsentStr, Odometer |-> Absent] }

VehicleUpdateData(f, ts) ==
    [FuelLevel |-> f.FuelLevel, Location |-> f.Location, Speed |-> f.Speed,
     Status |-> f.Status, Odometer |-> f.Odometer, Timestamp |-> ts]

\* the fields an update carries (non-nil pointers)
PresentFields(u) ==
    (IF u.FuelLevel # Absent THEN {"fuelLevel"} ELSE {}) \cup
    (IF u.Location # Absent THEN {"location"} ELSE {}) \cup
    (IF u.Speed # Absent THEN {"speed"} ELSE {}) \cup
    (IF u.Status # AbsentStr THEN {"status"} ELSE {}) \cup
    (IF u.Odometer # Absent THEN {"odometer"} ELSE {})

\* an empty map[string]VehicleUpdateData
EmptyMap == [v \in {} |-> 0]

\* m[k] = u on a Go map
MapPut(m, k, u) == [x \in (DOMAIN m) \cup {k} |-> IF x = k THEN u ELSE m[x]]

(* ------------------------------ errors -------------------------------- *)
ErrNil == [kind |-> "nil", vehicles |-> {}, failed |-> 0, total |-> 0]
ErrStopped == [kind |-> "batch processor is stopped", vehicles |-> {}, failed |-> 0, total |-> 0]
ErrQueueFull(v) == [kind |-> "update queue is full", vehicles |-> {v}, failed |-> 0, total |-> 0]
ErrStoppedDuringRetry == [kind |-> "batch processor stopped during retry", vehicles |-> {}, failed |-> 0, total |-> 0]
ErrIndividual(vs) == [kind |-> "individual update failures", vehicles |-> vs, failed |-> 0, total |-> 0]
ErrBatches(n, of) == [kind |-> "failed to process batches", vehicles |-> {}, failed |-> n, total |-> of]


(* ------------------------------ state --------------------------------- *)
VARIABLES
    \* DefaultBatchProcessor
    config,          \* bp.config: [MaxBatchSize, RetryAttempts]
    queueCap,        \* cap(bp.updateChan), fixed at construction
    updateChan,      \* bp.updateChan: sequence of updateRequest
    addLimit,        \* number of AddUpdate calls the callers make
    updates,         \* bp.updates: the pending buffer (map vehicleID -> update)
    ctxDone,         \* bp.ctx cancelled
    stopPc,          \* position of the caller of Stop: "none", "waiting", "returned"
    worker,          \* position of the worker goroutine
    pb,              \* position and locals of the ProcessBatch call in progress
    stats,           \* bp.stats counters
    \* VehicleRepository collaborator
    bulkMode,        \* behaviour of UpdateVehiclesBatch: "ok", "fail", "flaky"
    singleFails,     \* vehicle IDs whose UpdateVehicle returns an error
    repoWrites,      \* successful writes seen by the repository
    \* websocket.Manager
    broadcast,       \* m.broadcast channel contents
    wsRunning,       \* Manager.run started
    \* call history
    clock,           \* number of AddUpdate calls so far (logical time stamps)
    addErr,          \* return value of the latest AddUpdate
    accSince,        \* per vehicle: updates AddUpdate accepted since the latest flush
    movedSince,      \* per vehicle: updates moved into the buffer since the latest flush
    acceptedPreStop, \* requests AddUpdate accepted before Stop was called
    \* splitIntoBatches on its own
    splitArgs,       \* the buffer, the order its range loop visits it in, MaxBatchSize
    splitResult,     \* what splitIntoBatches returned, <<>> before the call
    \* SmartRateLimiter
    rlConfig,        \* srl.globalConfig
    vehicleLimits,   \* srl.vehicleLimits: map vehicleID -> VehicleRateLimit
    now,             \* time.Now(), in ticks of 15 minutes
    rlCalls,         \* number of CanMakeRequest calls so far
    rlResult,        \* the latest CanMakeRequest call and what it returned
    rlHist,          \* per vehicle: calls in its current window, a Critical one among them
    \* DeltaTracker
    lastStates,      \* dt.lastStates: map vehicleID -> VehicleSnapshot
    dtCalls,         \* number of ShouldUpdate calls so far
    dtResult,        \* the latest ShouldUpdate call and what it returned
    \* websocket.Manager: subscribers
    clients,         \* m.clients: map clientID -> [Filters, Send, IsActive]
    wsCall,          \* position of a direct caller inside BroadcastBatchUpdates
    wsHist,          \* per client what was enqueued, dropped and written; per call who was full
    wsReg,           \* m.done, the senders blocked on m.unregister, closed channels, panics
    \* AdaptiveScheduler
    schedVehicles,   \* as.vehicles: map vehicleID -> VehicleSchedule
    goroutines,      \* the goroutines startScheduler has launched, in launch order
    tickerChans,     \* the <<vehicle, generation>> tickers whose channel holds a tick
    closedStop,      \* the <<vehicle, generation>> stop channels that are closed
    schedCtx,        \* "live", "cancelled" once Stop has returned, "panicked"
    schedHist,       \* calls made, callbacks run, and those run after Stop returned
    \* OptimizedTelemetryService
    svcStats,        \* ots.stats
    svcResult,       \* the latest ProcessVehicleUpdate call and what it consulted
    \* SmartRateLimiter.RequestWithBackoff
    rwb,             \* the position of a RequestWithBackoff call, its context and its result
    \* concurrent callers of ProcessBatch
    flush            \* bp.updatesMux, each caller's position and currentUpdates, the batches taken

batchVars == <<config, queueCap, addLimit, updateChan, updates, ctxDone, stopPc, worker, pb, stats,
               bulkMode, singleFails, repoWrites, broadcast, wsRunning,
               clock, addErr, accSince, movedSince, acceptedPreStop>>

splitVars == <<splitArgs, splitResult>>

rlVars == <<rlConfig, vehicleLimits, now, rlCalls, rlResult, rlHist>>

\* the components a step of the batch processor leaves alone
dtVars == <<lastStates, dtCalls, dtResult>>

wsVars == <<clients, wsCall, wsHist, wsReg>>

schedVars == <<schedVehicles, goroutines, tickerChans, closedStop, schedCtx, schedHist>>

svcVars == <<svcStats, svcResult>>

rwbVars == <<rwb>>

flushVars == <<flush>>

otherThanRWB == <<batchVars, splitVars, dtVars, wsVars, schedVars, svcVars, flushVars>>

\* the batch processor's variables without the manager's channel and loop
batchOnlyVars == <<config, queueCap, addLimit, updateChan, updates, ctxDone, stopPc, worker, pb,
                   stats, bulkMode, singleFails, repoWrites, clock, addErr, accSince,
                   movedSince, acceptedPreStop>>

\* the components a step of the manager leaves alone, the batch processor aside
otherThanWS == <<splitVars, rlVars, dtVars, schedVars, svcVars, rwbVars, flushVars>>

\* the components a step of the batch processor leaves alone
otherThanBatch == <<splitVars, rlVars, dtVars, wsVars, schedVars, svcVars, rwbVars, flushVars>>

otherThanSplit == <<batchVars, rlVars, dtVars, wsVars, schedVars, svcVars, rwbVars, flushVars>>

otherThanRL == <<batchVars, splitVars, dtVars, wsVars, schedVars, svcVars, rwbVars, flushVars>>

\* the clock `now` is shared with the rate limiter
otherThanDT == <<batchVars, splitVars, rlConfig, vehicleLimits, now, rlCalls, rlResult, rlHist,
                 wsVars, schedVars, svcVars, rwbVars, flushVars>>

otherThanSched == <<batchVars, splitVars, rlVars, dtVars, wsVars, svcVars, rwbVars, flushVars>>

otherThanSvc == <<batchVars, splitVars, wsVars, schedVars, rwbVars, flushVars>>

vars == <<batchVars, splitVars, rlVars, dtVars, wsVars, schedVars, svcVars, rwbVars, flushVars>>

(* ------------------- Go maps, channels and iteration ------------------ *)
\* every order in which a range loop can visit the keys S of a Go map
RECURSIVE Perms(_)
Perms(S) == IF S = {} THEN {<<>>}
            ELSE UNION {{<<x>> \o p : p \in Perms(S \ {x})} : x \in S}

Range(q) == {q[i] : i \in 1..Len(q)}

Last(q) == q[Len(q)]

\* a send on a buffered channel of capacity cap can proceed
\* a channel send that still succeeds when the buffer is exactly full
CanSend_OffByOne(ch, cap) == Len(ch) <= cap

\* a buffered channel accepts a send without blocking while it has free capacity
CanSend(ch, cap) == Len(ch) < cap

(* ------------------------ DefaultBatchProcessor ----------------------- *)
\* math.Pow(b, n) for a natural exponent
RECURSIVE Pow(_, _)
Pow(b, n) == IF n = 0 THEN 1 ELSE b * Pow(b, n - 1)

\* config.RetryBackoff, in milliseconds
RetryBackoffMs == 10

\* a wait of RetryBackoff before every retry
backoffDuration_Fixed(attempt, retryBackoff) == retryBackoff

\* processSingleBatch: time.Duration(math.Pow(2, float64(attempt-1))) * RetryBackoff
backoffDuration(attempt, retryBackoff) == Pow(2, attempt - 1) * retryBackoff

\* a buffer that merges the sparse fields of the new update into the pending one
MergeFields(old, new) ==
    [FuelLevel |-> IF new.FuelLevel # Absent THEN new.FuelLevel ELSE old.FuelLevel,
     Location  |-> IF new.Location # Absent THEN new.Location ELSE old.Location,
     Speed     |-> IF new.Speed # Absent THEN new.Speed ELSE old.Speed,
     Status    |-> IF new.Status # AbsentStr THEN new.Status ELSE old.Status,
     Odometer  |-> IF new.Odometer # Absent THEN new.Odometer ELSE old.Odometer,
     Timestamp |-> new.Timestamp]

addToCurrentBatch_Merge(m, vehicleID, update) ==
    MapPut(m, vehicleID, IF vehicleID \in DOMAIN m THEN MergeFields(m[vehicleID], update)
                         ELSE update)

\* bp.updates[vehicleID] = update
addToCurrentBatch(m, vehicleID, update) == MapPut(m, vehicleID, update)

\* len(bp.updates)
getCurrentBatchSize(m) == Cardinality(DOMAIN m)

\* the range loop of splitIntoBatches over the keys in the order `order`
RECURSIVE SplitLoop(_, _, _, _, _, _)
SplitLoop(ups, order, i, currentBatch, batches, maxBatchSize) ==
    IF i > Len(order)
    THEN IF Cardinality(DOMAIN currentBatch) > 0 THEN Append(batches, currentBatch) ELSE batches
    ELSE LET cb == MapPut(currentBatch, order[i], ups[order[i]]) IN
         IF Cardinality(DOMAIN cb) >= maxBatchSize
         THEN SplitLoop(ups, order, i + 1, EmptyMap, Append(batches, cb), maxBatchSize)
         ELSE SplitLoop(ups, order, i + 1, cb, batches, maxBatchSize)

\* a split that forgets the sub-batch still being filled when the loop ends
splitIntoBatches_DropRest(ups, order, maxBatchSize) ==
    LET whole == SplitLoop(ups, order, 1, EmptyMap, <<>>, maxBatchSize)
    IN IF Cardinality(DOMAIN ups) <= maxBatchSize THEN <<ups>>
       ELSE IF Cardinality(DOMAIN ups) % maxBatchSize = 0 THEN whole
       ELSE SubSeq(whole, 1, Len(whole) - 1)

splitIntoBatches(ups, order, maxBatchSize) ==
    IF Cardinality(DOMAIN ups) <= maxBatchSize THEN <<ups>>
    ELSE SplitLoop(ups, order, 1, EmptyMap, <<>>, maxBatchSize)


\* a fallback that always returns the formatted error, empty or not
fallbackResult_AlwaysErr(errs) == ErrIndividual(errs)

\* the errors slice of fallbackToIndividualUpdates turned into its return value
fallbackResult(errs) == IF errs = {} THEN ErrNil ELSE ErrIndividual(errs)

\* a processSingleBatch that returns the broadcast failure to its caller
afterBroadcast_Propagate(dropped) ==
    IF dropped > 0
    THEN [kind |-> "failed to broadcast batch", vehicles |-> {}, failed |-> dropped, total |-> 0]
    ELSE ErrNil

\* what processSingleBatch returns once broadcastBatchUpdates is back: the
\* broadcast error is logged, `dropped` messages or not
afterBroadcast(dropped) == ErrNil


\* what ProcessBatch returns for totalErrors failed sub-batches out of nBatches
processBatchResult(totalErrors, nBatches) ==
    IF totalErrors > 0 THEN ErrBatches(totalErrors, nBatches) ELSE ErrNil

\* a fallback that forgets to count the failure
incrementFailedUpdates_Skip(st) == st

\* bp.stats.FailedUpdates++
incrementFailedUpdates(st) == [st EXCEPT !.FailedUpdates = @ + 1]

RECURSIVE Gcd(_, _)
Gcd(a, b) == IF b = 0 THEN a ELSE Gcd(b, a % b)

\* float64(a) / float64(b) for counters far below 2^53: the correctly rounded quotient,
\* which differs for different fractions of such counters; kept as the fraction in
\* lowest terms
Float64Quotient(a, b) == IF a = 0 THEN <<0, 1>> ELSE <<a \div Gcd(a, b), b \div Gcd(a, b)>>

\* the float64 zero value of AverageSize and ErrorRate
Float64Zero == Float64Quotient(0, 1)

\* statistics whose ratios are computed before the counters are advanced
updateStats_Stale(st, batchCount, updateCount) ==
    [st EXCEPT !.BatchesProcessed = @ + batchCount, !.TotalUpdates = @ + updateCount,
               !.AverageSize = IF st.BatchesProcessed > 0
                               THEN Float64Quotient(st.TotalUpdates, st.BatchesProcessed)
                               ELSE @,
               !.ErrorRate = IF st.TotalUpdates > 0
                             THEN Float64Quotient(st.FailedUpdates, st.TotalUpdates)
                             ELSE @]

\* updateStats: the counters are advanced, then the two ratios are recomputed from
\* them (each only when its denominator is positive)
updateStats(st, batchCount, updateCount) ==
    LET batches == st.BatchesProcessed + batchCount
        total == st.TotalUpdates + updateCount
    IN [st EXCEPT !.BatchesProcessed = batches, !.TotalUpdates = total,
                  !.AverageSize = IF batches > 0 THEN Float64Quotient(total, batches) ELSE @,
                  !.ErrorRate = IF total > 0 THEN Float64Quotient(st.FailedUpdates, total)
                                ELSE @]

\* priority levels of websocket.VehicleUpdate
PriorityLow == "low"
PriorityMedium == "medium"
PriorityHigh == "high"
PriorityCritical == "critical"

convertToWebSocketUpdate(vehicleID, u) ==
    LET t0 == "batch_update"
        p0 == PriorityMedium
        t1 == IF u.FuelLevel # Absent THEN "fuel" ELSE t0
        p1 == IF u.FuelLevel # Absent
              THEN IF u.FuelLevel < 10 THEN PriorityCritical
                   ELSE IF u.FuelLevel < 20 THEN PriorityHigh ELSE p0
              ELSE p0
        t2 == IF u.Location # Absent /\ t1 = "batch_update" THEN "location" ELSE t1
        speeding == u.Speed # Absent /\ u.Speed > 80
        t3 == IF u.Speed # Absent
              THEN IF speeding THEN "alert"
                   ELSE IF t2 = "batch_update" THEN "speed" ELSE t2
              ELSE t2
        p3 == IF speeding THEN PriorityHigh ELSE p1
        t4 == IF u.Status # AbsentStr /\ t3 = "batch_update" THEN "status" ELSE t3
        p4 == IF u.Status # AbsentStr /\ u.Status \in {"maintenance", "offline"}
              THEN PriorityHigh ELSE p3
        t5 == IF u.Odometer # Absent /\ t4 = "batch_update" THEN "odometer" ELSE t4
        keys == PresentFields(u) \cup (IF speeding THEN {"alertType"} ELSE {})
    IN [VehicleID  |-> vehicleID,
        UpdateType |-> t5,
        Data       |-> [k \in keys |->
                          CASE k = "fuelLevel" -> u.FuelLevel
                            [] k = "location"  -> u.Location
                            [] k = "speed"     -> u.Speed
                            [] k = "status"    -> u.Status
                            [] k = "odometer"  -> u.Odometer
                            [] k = "alertType" -> "speeding"],
        Timestamp  |-> u.Timestamp,
        Priority   |-> p4]

\* the updates slice broadcastBatchUpdates builds, ranging over the batch in `order`
wsUpdates(batch, order) ==
    [i \in 1..Len(order) |-> convertToWebSocketUpdate(order[i], batch[order[i]])]

IsHighPass(m) == m.Priority \in {PriorityCritical, PriorityHigh}
IsLowPass(m) == ~IsHighPass(m)

\* one pass over the updates in the order the caller gave them
broadcastAttempts_InputOrder(ups) == ups

\* the order in which Manager.BroadcastBatchUpdates attempts its sends:
\* first pass Critical and High, second pass Medium and Low
broadcastAttempts(ups) == SelectSeq(ups, IsHighPass) \o SelectSeq(ups, IsLowPass)

\* select { case m.broadcast <- update: default: } on the channel contents ch
trySend(ch, m) == IF CanSend(ch, BroadcastCap) THEN Append(ch, m) ELSE ch

(* --------------------------- repository ------------------------------- *)
\* the results UpdateVehiclesBatch may return (TRUE is a nil error)
BulkOutcomes(mode) ==
    CASE mode = "ok"    -> {TRUE}
      [] mode = "fail"  -> {FALSE}
      [] mode = "flaky" -> {TRUE, FALSE}

\* the result of UpdateVehicle(vehicleID, _)
SingleOutcome(vehicleID, failing) == vehicleID \notin failing

Written(batch, vs, via) ==
    {[vehicleID |-> v, update |-> batch[v], via |-> via] : v \in vs}


(* ------------------------------ Init ---------------------------------- *)
NoHistory == [v \in Vehicles |-> <<>>]

PBIdle ==
    [pc |-> "idle", batches |-> <<>>, nBatches |-> 0, nUpdates |-> 0, attempt |-> 0,
     bulkCalls |-> 0, singleCalls |-> <<>>, errors |-> {}, sendq |-> <<>>, dropped |-> 0,
     handed |-> FALSE, path |-> "none", subErr |-> ErrNil, failedBefore |-> 0,
     totalErrors |-> 0, failedIn |-> {}, stoppedIn |-> FALSE, result |-> ErrNil,
     acc |-> NoHistory, moved |-> NoHistory, waits |-> <<>>]

\* NewBatchProcessorWithWebSocket(config, repository, NewManager()), before Start,
\* against a repository of the given behaviour
InitBatchWith(limit, modes, retries) ==
    /\ config \in [MaxBatchSize : 1..MaxBatchSizeBound, RetryAttempts : retries,
                    RetryBackoff : {RetryBackoffMs}]
    /\ queueCap = config.MaxBatchSize * 2
    /\ addLimit = limit
    /\ updateChan = <<>>
    /\ updates = EmptyMap
    /\ ctxDone = FALSE
    /\ stopPc = "none"
    /\ worker = [pc |-> "notStarted", final |-> FALSE]
    /\ pb = PBIdle
    /\ stats = [BatchesProcessed |-> 0, TotalUpdates |-> 0, FailedUpdates |-> 0,
                AverageSize |-> Float64Zero, ErrorRate |-> Float64Zero]
    /\ bulkMode \in modes
    /\ singleFails \in SUBSET {1}
    /\ (bulkMode = "ok" => singleFails = {})
    /\ repoWrites = {}
    /\ broadcast = <<>>
    /\ wsRunning = FALSE
    /\ clock = 0
    /\ addErr = ErrNil
    /\ accSince = NoHistory
    /\ movedSince = NoHistory
    /\ acceptedPreStop = {}

InitBatch(limit, modes) == InitBatchWith(limit, modes, {RetryAttemptsBound})

(* ----------------------- AddUpdate, Start, Stop ----------------------- *)
\* AddUpdate(vehicleID, update): the select over send, ctx.Done and default
AddUpdate(vehicleID, fields) ==
    /\ clock < addLimit
    /\ clock' = clock + 1
    /\ LET update == VehicleUpdateData(fields, clock + 1)
           req == [vehicleID |-> vehicleID, update |-> update]
       IN \/ /\ CanSend(updateChan, queueCap)
             /\ updateChan' = Append(updateChan, req)
             /\ addErr' = ErrNil
             /\ accSince' = [accSince EXCEPT ![vehicleID] = Append(@, update)]
             /\ acceptedPreStop' = IF stopPc = "none" THEN acceptedPreStop \cup {req}
                                   ELSE acceptedPreStop
          \/ /\ ctxDone
             /\ addErr' = ErrStopped
             /\ UNCHANGED <<updateChan, accSince, acceptedPreStop>>
          \/ /\ ~CanSend(updateChan, queueCap)
             /\ ~ctxDone
             /\ addErr' = ErrQueueFull(vehicleID)
             /\ UNCHANGED <<updateChan, accSince, acceptedPreStop>>
    /\ UNCHANGED <<config, queueCap, addLimit, updates, ctxDone, stopPc, worker, pb, stats,
                   bulkMode, singleFails, repoWrites, broadcast, wsRunning, movedSince>>
    /\ UNCHANGED otherThanBatch

\* Start(): go bp.worker()
Start ==
    /\ worker.pc = "notStarted"
    /\ worker' = [worker EXCEPT !.pc = "select"]
    /\ UNCHANGED <<config, queueCap, addLimit, updateChan, updates, ctxDone, stopPc, pb, stats,
                   bulkMode, singleFails, repoWrites, broadcast, wsRunning, clock, addErr,
                   accSince, movedSince, acceptedPreStop>>
    /\ UNCHANGED otherThanBatch

\* Stop(): bp.cancel(); close(bp.stopChan); then it waits for the worker
StopCall ==
    /\ stopPc = "none"
    /\ worker.pc # "notStarted"
    /\ ctxDone' = TRUE
    /\ stopPc' = "waiting"
    /\ UNCHANGED <<config, queueCap, addLimit, updateChan, updates, worker, pb, stats, bulkMode,
                   singleFails, repoWrites, broadcast, wsRunning, clock, addErr, accSince,
                   movedSince, acceptedPreStop>>
    /\ UNCHANGED otherThanBatch

\* Stop(): bp.workerWg.Wait() is over, Stop returns nil
StopReturn ==
    /\ stopPc = "waiting"
    /\ worker.pc = "exited"
    /\ stopPc' = "returned"
    /\ UNCHANGED <<config, queueCap, addLimit, updateChan, updates, ctxDone, worker, pb, stats,
                   bulkMode, singleFails, repoWrites, broadcast, wsRunning, clock, addErr,
                   accSince, movedSince, acceptedPreStop>>
    /\ UNCHANGED otherThanBatch

\* SetBatchSize(size)
SetBatchSize(size) ==
    /\ size # config.MaxBatchSize
    /\ config' = [config EXCEPT !.MaxBatchSize = size]
    /\ UNCHANGED <<queueCap, addLimit, updateChan, updates, ctxDone, stopPc, worker, pb, stats,
                   bulkMode, singleFails, repoWrites, broadcast, wsRunning, clock, addErr,
                   accSince, movedSince, acceptedPreStop>>
    /\ UNCHANGED otherThanBatch

(* ---------------------------- ProcessBatch ---------------------------- *)
\* where the worker continues when ProcessBatch returns
WorkerResume(final) == IF final THEN [pc |-> "exited", final |-> TRUE]
                       ELSE [pc |-> "select", final |-> FALSE]

\* the worker calls ProcessBatch on the pending buffer buf: the buffer is swapped
\* out under the lock; nil is returned when it was empty, otherwise it is split
\* into sub-batches (moved: the updates moved into the buffer since the last flush)
ProcessBatchCall(buf, moved, final) ==
    /\ updates' = EmptyMap
    /\ accSince' = NoHistory
    /\ movedSince' = NoHistory
    /\ IF DOMAIN buf = {}
       THEN /\ pb' = [PBIdle EXCEPT !.result = ErrNil]
            /\ worker' = WorkerResume(final)
       ELSE /\ \E order \in Perms(DOMAIN buf) :
                 LET bs == splitIntoBatches(buf, order, config.MaxBatchSize) IN
                 pb' = [PBIdle EXCEPT !.pc = "attempt", !.batches = bs,
                                      !.nBatches = Len(bs),
                                      !.nUpdates = Cardinality(DOMAIN buf),
                                      !.failedBefore = stats.FailedUpdates,
                                      !.acc = accSince, !.moved = moved]
            /\ worker' = [pc |-> "processing", final |-> final]


(* ------------------------------ worker -------------------------------- *)
\* case update := <-bp.updateChan: addToCurrentBatch, restart the max-wait timer,
\* ProcessBatch when the buffer has reached MaxBatchSize
WorkerReceive ==
    /\ worker.pc = "select"
    /\ updateChan # <<>>
    /\ LET req == Head(updateChan)
           buf == addToCurrentBatch(updates, req.vehicleID, req.update)
           moved == [movedSince EXCEPT ![req.vehicleID] = Append(@, req.update)]
       IN /\ updateChan' = Tail(updateChan)
          /\ IF getCurrentBatchSize(buf) >= config.MaxBatchSize
             THEN ProcessBatchCall(buf, moved, FALSE)
             ELSE /\ updates' = buf
                  /\ movedSince' = moved
                  /\ UNCHANGED <<worker, pb, accSince>>
    /\ UNCHANGED <<config, queueCap, addLimit, ctxDone, stopPc, stats, bulkMode, singleFails,
                   repoWrites, broadcast, wsRunning, clock, addErr, acceptedPreStop>>
    /\ UNCHANGED otherThanBatch

\* a tick that flushes a full buffer only
WorkerTick_OnlyWhenFull ==
    /\ worker.pc = "select"
    /\ getCurrentBatchSize(updates) >= config.MaxBatchSize
    /\ ProcessBatchCall(updates, movedSince, FALSE)
    /\ UNCHANGED <<config, queueCap, addLimit, updateChan, ctxDone, stopPc, stats, bulkMode,
                   singleFails, repoWrites, broadcast, wsRunning, clock, addErr,
                   acceptedPreStop>>
    /\ UNCHANGED otherThanBatch

\* case <-ticker.C
WorkerTick ==
    /\ worker.pc = "select"
    /\ ProcessBatchCall(updates, movedSince, FALSE)
    /\ UNCHANGED <<config, queueCap, addLimit, updateChan, ctxDone, stopPc, stats, bulkMode,
                   singleFails, repoWrites, broadcast, wsRunning, clock, addErr,
                   acceptedPreStop>>
    /\ UNCHANGED otherThanBatch

\* case <-maxWaitTimer.C
WorkerMaxWait ==
    /\ worker.pc = "select"
    /\ ProcessBatchCall(updates, movedSince, FALSE)
    /\ UNCHANGED <<config, queueCap, addLimit, updateChan, ctxDone, stopPc, stats, bulkMode,
                   singleFails, repoWrites, broadcast, wsRunning, clock, addErr,
                   acceptedPreStop>>
    /\ UNCHANGED otherThanBatch

\* case <-bp.ctx.Done(): the final ProcessBatch, then return
WorkerCtxDone ==
    /\ worker.pc = "select"
    /\ ctxDone
    /\ ProcessBatchCall(updates, movedSince, TRUE)
    /\ UNCHANGED <<config, queueCap, addLimit, updateChan, ctxDone, stopPc, stats, bulkMode,
                   singleFails, repoWrites, broadcast, wsRunning, clock, addErr,
                   acceptedPreStop>>
    /\ UNCHANGED otherThanBatch

\* processSingleBatch: one call of repository.UpdateVehiclesBatch(batch)
BulkWrite ==
    /\ pb.pc = "attempt"
    /\ LET batch == Head(pb.batches) IN
       \E ok \in BulkOutcomes(bulkMode) :
          IF ok
          THEN /\ repoWrites' = repoWrites \cup Written(batch, DOMAIN batch, "bulk")
               /\ \E order \in Perms(DOMAIN batch) :
                    pb' = [pb EXCEPT !.pc = "bcast", !.bulkCalls = @ + 1, !.path = "bulk",
                                     !.handed = TRUE,
                                     !.sendq = broadcastAttempts(wsUpdates(batch, order))]
          ELSE /\ UNCHANGED repoWrites
               /\ IF pb.attempt = config.RetryAttempts
                  THEN pb' = [pb EXCEPT !.pc = "fallback", !.bulkCalls = @ + 1,
                                        !.path = "fallback"]
                  ELSE pb' = [pb EXCEPT !.pc = "backoff", !.bulkCalls = @ + 1,
                                        !.attempt = @ + 1]
    /\ UNCHANGED <<config, queueCap, addLimit, updateChan, updates, ctxDone, stopPc, worker,
                   stats, bulkMode, singleFails, broadcast, wsRunning, clock, addErr, accSince,
                   movedSince, acceptedPreStop>>
    /\ UNCHANGED otherThanBatch

\* processSingleBatch: the backoff select, time.After against ctx.Done
RetryBackoff ==
    /\ pb.pc = "backoff"
    /\ \/ pb' = [pb EXCEPT !.pc = "attempt",
                            !.waits = Append(@, backoffDuration(pb.attempt,
                                                                config.RetryBackoff))]
       \/ /\ ctxDone
          /\ pb' = [pb EXCEPT !.pc = "subdone", !.path = "stopped",
                              !.subErr = ErrStoppedDuringRetry]
    /\ UNCHANGED <<config, queueCap, addLimit, updateChan, updates, ctxDone, stopPc, worker,
                   stats, bulkMode, singleFails, repoWrites, broadcast, wsRunning, clock,
                   addErr, accSince, movedSince, acceptedPreStop>>
    /\ UNCHANGED otherThanBatch

\* Manager.BroadcastBatchUpdates: the next non-blocking send on m.broadcast; after
\* the last one broadcastBatchUpdates returns and processSingleBatch returns nil
BroadcastStep ==
    /\ pb.pc = "bcast"
    /\ LET m == Head(pb.sendq)
           rest == Tail(pb.sendq)
           d == pb.dropped + (IF CanSend(broadcast, BroadcastCap) THEN 0 ELSE 1)
       IN /\ broadcast' = trySend(broadcast, m)
          /\ pb' = IF rest = <<>>
                   THEN [pb EXCEPT !.pc = "subdone", !.sendq = rest, !.dropped = d,
                                   !.subErr = afterBroadcast(d)]
                   ELSE [pb EXCEPT !.sendq = rest, !.dropped = d]
    /\ UNCHANGED <<config, queueCap, addLimit, updateChan, updates, ctxDone, stopPc, worker,
                   stats, bulkMode, singleFails, repoWrites, wsRunning, clock, addErr,
                   accSince, movedSince, acceptedPreStop>>
    /\ UNCHANGED otherThanBatch

\* fallbackToIndividualUpdates: one iteration of the range loop, one call of
\* repository.UpdateVehicle; after the last one the collected errors are returned
FallbackStep ==
    /\ pb.pc = "fallback"
    /\ LET batch == Head(pb.batches)
           todo == (DOMAIN batch) \ Range(pb.singleCalls)
       IN \E v \in todo :
            LET ok == SingleOutcome(v, singleFails)
                errs == IF ok THEN pb.errors ELSE pb.errors \cup {v}
            IN /\ repoWrites' = IF ok THEN repoWrites \cup Written(batch, {v}, "single")
                                ELSE repoWrites
               /\ stats' = IF ok THEN stats ELSE incrementFailedUpdates(stats)
               /\ pb' = IF todo = {v}
                        THEN [pb EXCEPT !.pc = "subdone", !.singleCalls = Append(@, v),
                                        !.errors = errs, !.subErr = fallbackResult(errs)]
                        ELSE [pb EXCEPT !.singleCalls = Append(@, v), !.errors = errs]
    /\ UNCHANGED <<config, queueCap, addLimit, updateChan, updates, ctxDone, stopPc, worker,
                   bulkMode, singleFails, broadcast, wsRunning, clock, addErr, accSince,
                   movedSince, acceptedPreStop>>
    /\ UNCHANGED otherThanBatch

\* ProcessBatch: processSingleBatch has returned; count its error, go on with the
\* next sub-batch, or update the statistics and return to the worker
SubBatchDone ==
    /\ pb.pc = "subdone"
    /\ LET te == pb.totalErrors + (IF pb.subErr # ErrNil THEN 1 ELSE 0)
           fi == pb.failedIn \cup pb.errors
           si == pb.stoppedIn \/ pb.path = "stopped"
           rest == Tail(pb.batches)
       IN IF rest # <<>>
          THEN /\ pb' = [PBIdle EXCEPT !.pc = "attempt", !.batches = rest,
                                       !.nBatches = pb.nBatches, !.nUpdates = pb.nUpdates,
                                       !.totalErrors = te, !.failedIn = fi, !.stoppedIn = si,
                                       !.failedBefore = stats.FailedUpdates]
               /\ UNCHANGED <<stats, worker>>
          ELSE /\ stats' = updateStats(stats, pb.nBatches, pb.nUpdates)
               /\ pb' = [PBIdle EXCEPT !.result = processBatchResult(te, pb.nBatches),
                                       !.failedIn = fi, !.stoppedIn = si]
               /\ worker' = WorkerResume(worker.final)
    /\ UNCHANGED <<config, queueCap, addLimit, updateChan, updates, ctxDone, stopPc, bulkMode,
                   singleFails, repoWrites, broadcast, wsRunning, clock, addErr, accSince,
                   movedSince, acceptedPreStop>>
    /\ UNCHANGED otherThanBatch

(* -------------------------- websocket.Manager ------------------------- *)
(* ----------------------- websocket.Manager clients -------------------- *)
NumWSClients == 2
ClientSendCap == 1
MaxSweeps == 2
MaxSingleBroadcasts == 1
MaxWSCalls == 2

WSClients == 1..NumWSClients

NoFilters == [VehicleIDs |-> {}, Statuses |-> {}, Drivers |-> {}, AlertTypes |-> {}]

\* the filters subscribers register with: none, an allow-list of vehicle 1, and the
\* allow-list together with a status filter
FilterChoices ==
    {NoFilters,
     [NoFilters EXCEPT !.VehicleIDs = {1}],
     [NoFilters EXCEPT !.VehicleIDs = {1}, !.Statuses = {"active"}]}

\* a VehicleUpdate a caller hands to the manager
WSMessage(vehicleID, status, priority) ==
    [VehicleID |-> vehicleID, UpdateType |-> "status", Data |-> [k \in {"status"} |-> status],
     Timestamp |-> 0, Priority |-> priority]

WSMessages ==
    {WSMessage(v, st, p) : v \in Vehicles, st \in {"active"}, p \in {PriorityCritical, PriorityLow}}
      \cup {WSMessage(1, "idle", PriorityLow)}

\* the batches a caller broadcasts: one update, or two different ones
WSBatches ==
    {<<m>> : m \in WSMessages}
      \cup {<<pair[1], pair[2]>> : pair \in {q \in WSMessages \X WSMessages : q[1] # q[2]}}

\* a filter check that skips the vehicle ID allow-list
shouldSendToClient_IgnoreIDs(filters, update) ==
    IF filters = NoFilters THEN TRUE
    ELSE IF /\ filters.Statuses # {}
            /\ "status" \in DOMAIN update.Data
            /\ update.Data["status"] \notin filters.Statuses THEN FALSE
    ELSE TRUE

shouldSendToClient(filters, update) ==
    IF /\ filters.VehicleIDs = {} /\ filters.Statuses = {}
       /\ filters.Drivers = {} /\ filters.AlertTypes = {} THEN TRUE
    ELSE IF filters.VehicleIDs # {} /\ update.VehicleID \notin filters.VehicleIDs THEN FALSE
    ELSE IF /\ filters.Statuses # {}
            /\ "status" \in DOMAIN update.Data
            /\ update.Data["status"] \notin filters.Statuses THEN FALSE
    ELSE IF /\ filters.AlertTypes # {}
            /\ update.UpdateType = "alert"
            /\ "alertType" \in DOMAIN update.Data
            /\ update.Data["alertType"] \notin filters.AlertTypes THEN FALSE
    ELSE TRUE

\* a delivery that passes over the clients marked inactive
Accepting_ActiveOnly(cl, update) ==
    {c \in DOMAIN cl : /\ shouldSendToClient(cl[c].Filters, update)
                       /\ CanSend(cl[c].Send, ClientSendCap)
                       /\ cl[c].IsActive}

\* the clients whose select takes `case client.Send <- update`
Accepting(cl, update) ==
    {c \in DOMAIN cl : /\ shouldSendToClient(cl[c].Filters, update)
                       /\ CanSend(cl[c].Send, ClientSendCap)}

\* the clients whose select falls to default: send channel full
Overflowing(cl, update) ==
    {c \in DOMAIN cl : /\ shouldSendToClient(cl[c].Filters, update)
                       /\ ~CanSend(cl[c].Send, ClientSendCap)}

broadcastToClients(cl, update) ==
    [c \in DOMAIN cl |->
        IF c \in Accepting(cl, update) THEN [cl[c] EXCEPT !.Send = Append(@, update)]
        ELSE IF c \in Overflowing(cl, update) THEN [cl[c] EXCEPT !.IsActive = FALSE]
        ELSE cl[c]]

\* NewManager(): no client, nobody broadcasting
InitWS ==
    /\ clients = EmptyMap
    /\ wsCall = [pc |-> "idle", calls |-> 0, sendq |-> <<>>]
    /\ wsHist = [enqueued |-> [c \in WSClients |-> {}], dropped |-> [c \in WSClients |-> {}],
                 written |-> [c \in WSClients |-> {}], chanDropped |-> {},
                 fullAt |-> [n \in 1..MaxWSCalls |-> {}]]
    /\ wsReg = [done |-> FALSE, exited |-> FALSE, panicked |-> FALSE, unregister |-> {},
                register |-> {}, used |-> {}, closed |-> {}, handlerExited |-> {}, sweeps |-> 0,
                evicted |-> {}, sentAfterClose |-> FALSE, doubleClose |-> FALSE]

\* Manager.Start(): go m.run()
ManagerStart ==
    /\ ~wsRunning
    /\ wsRunning' = TRUE
    /\ UNCHANGED <<config, queueCap, addLimit, updateChan, updates, ctxDone, stopPc, worker, pb,
                   stats, bulkMode, singleFails, repoWrites, broadcast, clock, addErr, accSince,
                   movedSince, acceptedPreStop>>
    /\ UNCHANGED otherThanBatch

\* Manager.run is in its select: started, not returned, the process has not panicked
LoopAlive == wsRunning /\ ~wsReg.exited /\ ~wsReg.panicked

\* Manager.run: case update := <-m.broadcast: m.broadcastToClients(update); a send on
\* a closed client.Send panics
ManagerReceive ==
    /\ LoopAlive
    /\ broadcast # <<>>
    /\ broadcast' = Tail(broadcast)
    /\ LET update == Head(broadcast)
           toClosed == {c \in DOMAIN clients : /\ shouldSendToClient(clients[c].Filters, update)
                                               /\ c \in wsReg.closed}
       IN IF toClosed # {}
          THEN /\ wsReg' = [wsReg EXCEPT !.panicked = TRUE, !.sentAfterClose = TRUE]
               /\ UNCHANGED <<clients, wsHist>>
          ELSE /\ clients' = broadcastToClients(clients, update)
               /\ wsHist' = [wsHist EXCEPT
                    !.enqueued = [c \in WSClients |->
                                    IF c \in Accepting(clients, update)
                                    THEN @[c] \cup {update} ELSE @[c]],
                    !.dropped = [c \in WSClients |->
                                    IF c \in Overflowing(clients, update)
                                    THEN @[c] \cup {update} ELSE @[c]]]
               /\ UNCHANGED wsReg
    /\ UNCHANGED <<batchOnlyVars, wsRunning, wsCall, otherThanWS>>

\* RegisterClient(clientID, conn, filters): m.register <- client, taken by Manager.run;
\* callers give every connection its own client ID
RegisterClient(clientID, filters) ==
    /\ LoopAlive
    /\ clientID \notin wsReg.used
    /\ clients' = MapPut(clients, clientID,
                         [Filters |-> filters, Send |-> <<>>, IsActive |-> TRUE,
                          LastPing |-> now])
    /\ wsReg' = [wsReg EXCEPT !.used = @ \cup {clientID}]
    /\ UNCHANGED <<batchVars, wsCall, wsHist, otherThanWS>>

\* the client IDs of the callers blocked in `m.register <- client`
Registering == {r.ID : r \in wsReg.register}

\* RegisterClient(clientID, conn, filters) while Manager.run is not in its select:
\* the client is built and the caller blocks in the send on the unbuffered m.register
RegisterClientSend(clientID, filters) ==
    /\ ~LoopAlive
    /\ ~wsReg.panicked
    /\ clientID \notin wsReg.used
    /\ clientID \notin Registering
    /\ wsReg' = [wsReg EXCEPT !.register = @ \cup {[ID |-> clientID, Filters |-> filters,
                                                    LastPing |-> now]}]
    /\ UNCHANGED <<batchVars, clients, wsCall, wsHist, otherThanWS>>

\* Manager.run: case client := <-m.register, for a caller that was waiting
ManagerRegister(clientID) ==
    /\ LoopAlive
    /\ \E r \in wsReg.register :
          /\ r.ID = clientID
          /\ clients' = MapPut(clients, clientID,
                               [Filters |-> r.Filters, Send |-> <<>>, IsActive |-> TRUE,
                                LastPing |-> r.LastPing])
          /\ wsReg' = [wsReg EXCEPT !.register = @ \ {r}, !.used = @ \cup {clientID}]
    /\ UNCHANGED <<batchVars, wsCall, wsHist, otherThanWS>>

\* a caller enters BroadcastBatchUpdates(ups)
BroadcastBatchUpdatesCall(ups) ==
    /\ wsCall.pc = "idle"
    /\ wsCall.calls < MaxWSCalls
    /\ LET n == wsCall.calls + 1
           stamped == [i \in 1..Len(ups) |-> [ups[i] EXCEPT !.Timestamp = n]]
       IN /\ wsCall' = [pc |-> "sending", calls |-> n, sendq |-> broadcastAttempts(stamped)]
          /\ wsHist' = [wsHist EXCEPT !.fullAt[n] =
                           {c \in DOMAIN clients : Len(clients[c].Send) >= ClientSendCap}]
    /\ UNCHANGED <<batchVars, clients, wsReg, otherThanWS>>

\* BroadcastBatchUpdates: the next select { case m.broadcast <- update: default: }
BroadcastBatchSend ==
    /\ wsCall.pc = "sending"
    /\ LET m == Head(wsCall.sendq)
           rest == Tail(wsCall.sendq)
       IN /\ broadcast' = trySend(broadcast, m)
          /\ wsHist' = IF CanSend(broadcast, BroadcastCap) THEN wsHist
                       ELSE [wsHist EXCEPT !.chanDropped = @ \cup {m}]
          /\ wsCall' = [wsCall EXCEPT !.sendq = rest,
                                      !.pc = IF rest = <<>> THEN "idle" ELSE "sending"]
    /\ UNCHANGED <<batchOnlyVars, wsRunning, clients, wsReg, otherThanWS>>

\* writeMessages: case update, ok := <-client.Send, written to the connection
WriteMessages(clientID) ==
    /\ clientID \in DOMAIN clients
    /\ clients[clientID].Send # <<>>
    /\ clients' = [clients EXCEPT ![clientID].Send = Tail(@)]
    /\ wsHist' = [wsHist EXCEPT !.written[clientID] = @ \cup {Head(clients[clientID].Send)}]
    /\ UNCHANGED <<batchVars, wsCall, wsReg, otherThanWS>>

\* one tick of the clock is 45 s here: LastPing older than 90 s
PingTimeoutTicks == 2

\* a sweep that also evicts at exactly the timeout
PingTimedOut_Inclusive(t, lastPing) == t - lastPing >= PingTimeoutTicks

\* healthCheck: now.Sub(client.LastPing) > 90*time.Second
PingTimedOut(t, lastPing) == t - lastPing > PingTimeoutTicks

\* BroadcastVehicleUpdate(vehicleID, update): one non-blocking send on m.broadcast
BroadcastVehicleUpdate(update) ==
    /\ ~wsReg.panicked
    /\ wsCall.pc = "idle"
    /\ wsCall.calls < MaxSingleBroadcasts
    /\ wsCall' = [wsCall EXCEPT !.calls = @ + 1]
    /\ broadcast' = trySend(broadcast, [update EXCEPT !.Timestamp = wsCall.calls + 1])
    /\ UNCHANGED <<batchOnlyVars, wsRunning, clients, wsHist, wsReg, otherThanWS>>

\* handleClient's pong handler: client.LastPing = time.Now(), in the client's reader
\* goroutine, while the connection is open
PongReceived(clientID) ==
    /\ ~wsReg.panicked
    /\ clientID \in DOMAIN clients
    /\ clientID \notin wsReg.closed
    /\ clients[clientID].LastPing # now
    /\ clients' = [clients EXCEPT ![clientID].LastPing = now]
    /\ UNCHANGED <<batchVars, wsCall, wsHist, wsReg, otherThanWS>>

\* handleClient: an update_filters message, client.Filters = newFilters
UpdateFilters(clientID, filters) ==
    /\ ~wsReg.panicked
    /\ clientID \in DOMAIN clients
    /\ clientID \notin wsReg.closed
    /\ clients[clientID].Filters # filters
    /\ clients' = [clients EXCEPT ![clientID].Filters = filters]
    /\ UNCHANGED <<batchVars, wsCall, wsHist, wsReg, otherThanWS>>

\* UnregisterClient(clientID): the client is looked up, then sent on m.unregister
UnregisterClient(clientID) ==
    /\ ~wsReg.panicked
    /\ clientID \in DOMAIN clients
    /\ clientID \notin wsReg.unregister
    /\ wsReg' = [wsReg EXCEPT !.unregister = @ \cup {clientID}]
    /\ UNCHANGED <<batchVars, clients, wsCall, wsHist, otherThanWS>>

\* handleClient: ReadJSON fails (the peer went away or the connection was closed),
\* the deferred m.unregister <- client
HandleClientExit(clientID) ==
    /\ ~wsReg.panicked
    /\ clientID \in wsReg.used
    /\ clientID \notin wsReg.handlerExited
    /\ clientID \notin wsReg.unregister
    /\ wsReg' = [wsReg EXCEPT !.unregister = @ \cup {clientID},
                              !.handlerExited = @ \cup {clientID}]
    /\ UNCHANGED <<batchVars, clients, wsCall, wsHist, otherThanWS>>

\* Manager.run: case client := <-m.unregister; closing a closed client.Send panics
ManagerUnregister(clientID) ==
    /\ LoopAlive
    /\ clientID \in wsReg.unregister
    /\ IF clientID \notin DOMAIN clients
       THEN /\ wsReg' = [wsReg EXCEPT !.unregister = @ \ {clientID}]
            /\ UNCHANGED clients
       ELSE /\ clients' = [c \in DOMAIN clients \ {clientID} |-> clients[c]]
            /\ wsReg' = IF clientID \in wsReg.closed
                        THEN [wsReg EXCEPT !.unregister = @ \ {clientID}, !.panicked = TRUE,
                                           !.doubleClose = TRUE]
                        ELSE [wsReg EXCEPT !.unregister = @ \ {clientID},
                                           !.closed = @ \cup {clientID}]
    /\ UNCHANGED <<batchVars, wsCall, wsHist, otherThanWS>>

\* Manager.run: case <-ticker.C: m.healthCheck()
HealthCheck ==
    /\ LoopAlive
    /\ wsReg.sweeps < MaxSweeps
    /\ LET stale == {c \in DOMAIN clients : PingTimedOut(now, clients[c].LastPing)}
       IN /\ clients' = [c \in DOMAIN clients \ stale |-> clients[c]]
          /\ wsReg' = IF stale \cap wsReg.closed # {}
                      THEN [wsReg EXCEPT !.sweeps = @ + 1, !.evicted = stale,
                                         !.panicked = TRUE, !.doubleClose = TRUE]
                      ELSE [wsReg EXCEPT !.sweeps = @ + 1, !.evicted = stale,
                                         !.closed = @ \cup stale]
    /\ UNCHANGED <<batchVars, wsCall, wsHist, otherThanWS>>

\* Manager.Stop(): close(m.done), then close(client.Send) and Conn.Close() for every
\* client in m.clients, in the caller's goroutine; the clients stay in the map
ManagerStop ==
    /\ ~wsReg.panicked
    /\ ~wsReg.done
    /\ wsReg' = IF DOMAIN clients \cap wsReg.closed # {}
                THEN [wsReg EXCEPT !.done = TRUE, !.panicked = TRUE, !.doubleClose = TRUE]
                ELSE [wsReg EXCEPT !.done = TRUE, !.closed = @ \cup DOMAIN clients]
    /\ UNCHANGED <<batchVars, clients, wsCall, wsHist, otherThanWS>>

\* Manager.run: case <-m.done: return
ManagerExit ==
    /\ LoopAlive
    /\ wsReg.done
    /\ wsReg' = [wsReg EXCEPT !.exited = TRUE]
    /\ UNCHANGED <<batchVars, clients, wsCall, wsHist, otherThanWS>>

(* ------------------------ splitIntoBatches alone ---------------------- *)
NumSplitVehicles == 4
MaxSplitSize == 3

SplitVehicles == 1..NumSplitVehicles

\* a buffer over the vehicles S: sparse updates of alternating shape
SplitBuffer(S) ==
    [v \in S |-> VehicleUpdateData(IF v % 2 = 0 THEN [FuelLevel |-> 5, Location |-> Absent,
                                                      Speed |-> Absent, Status |-> AbsentStr,
                                                      Odometer |-> Absent]
                                   ELSE [FuelLevel |-> Absent, Location |-> Absent,
                                         Speed |-> 60, Status |-> AbsentStr,
                                         Odometer |-> Absent], v)]

NoSplit == <<>>

IdleSplit ==
    /\ splitArgs = [updates |-> EmptyMap, order |-> <<>>, maxBatchSize |-> 1]
    /\ splitResult = NoSplit

InitSplit ==
    /\ \E S \in SUBSET SplitVehicles, m \in 1..MaxSplitSize :
         \E order \in Perms(S) :
            splitArgs = [updates |-> SplitBuffer(S), order |-> order, maxBatchSize |-> m]
    /\ splitResult = NoSplit

\* batches := bp.splitIntoBatches(updates)
SplitCall ==
    /\ splitResult = NoSplit
    /\ splitResult' = splitIntoBatches(splitArgs.updates, splitArgs.order, splitArgs.maxBatchSize)
    /\ UNCHANGED <<splitArgs, otherThanSplit>>

(* --------------------------- SmartRateLimiter ------------------------- *)
NumRLVehicles == 1
MaxBase == 3
BurstBound == 1
MaxRLCalls == 5
MaxTime == 5

RLVehicles == 1..NumRLVehicles

\* WindowDuration (1 h) and BackoffResetDuration (30 min) in ticks of 15 minutes
WindowTicks == 4
ResetTicks == 2

\* telemetry.Priority: PriorityLow .. PriorityCritical
TelemetryPriorityLow == 0
TelemetryPriorityCritical == 3
TelemetryPriorities == TelemetryPriorityLow..TelemetryPriorityCritical

MaxBackoffLevel == 5

\* durations returned to the caller are counted in 1/32 s, which keeps
\* 30 s x ConsecutiveRejects x 1.5^BackoffLevel exact up to level 5
BaseRetry == 30 * 32
MaxRetry == 15 * 60 * 32

\* BackoffMultiplier as a fraction <<numerator, denominator>>: 1.0 and 1.5
Multipliers == {<<1, 1>>, <<3, 2>>}

\* the zero time.Time of a limit that was never rejected: further back than any
\* duration the limiter compares with
ZeroTime == 0 - (WindowTicks + ResetTicks + MaxTime)

\* float64 arithmetic on positive values: a value is [m, e] for m * 2^e, the mantissa m
\* an integer of 53 bits held as a sequence of 14-bit limbs, least significant first
LimbBase == 2^14

RECURSIVE MulLimbs(_, _, _)
MulLimbs(x, k, carry) ==
    IF x = <<>>
    THEN IF carry = 0 THEN <<>> ELSE <<carry % LimbBase>> \o MulLimbs(<<>>, k, carry \div LimbBase)
    ELSE LET p == Head(x) * k + carry
         IN <<p % LimbBase>> \o MulLimbs(Tail(x), k, p \div LimbBase)

\* quotient and remainder of a limb sequence by a divisor below 2^14
RECURSIVE DivLimbs(_, _)
DivLimbs(x, d) ==
    IF x = <<>> THEN [q |-> <<>>, r |-> 0]
    ELSE LET hi == DivLimbs(Tail(x), d)
             cur == hi.r * LimbBase + Head(x)
         IN [q |-> <<cur \div d>> \o hi.q, r |-> cur % d]

RECURSIVE TrimLimbs(_)
TrimLimbs(x) ==
    IF x = <<>> THEN <<>>
    ELSE IF x[Len(x)] = 0 THEN TrimLimbs(SubSeq(x, 1, Len(x) - 1)) ELSE x

RECURSIVE BitLenInt(_)
BitLenInt(n) == IF n = 0 THEN 0 ELSE 1 + BitLenInt(n \div 2)

BitLength(x) ==
    LET t == TrimLimbs(x)
    IN IF t = <<>> THEN 0 ELSE 14 * (Len(t) - 1) + BitLenInt(t[Len(t)])

RECURSIVE AddOne(_)
AddOne(x) ==
    IF x = <<>> THEN <<1>>
    ELSE IF Head(x) + 1 < LimbBase THEN <<Head(x) + 1>> \o Tail(x)
    ELSE <<0>> \o AddOne(Tail(x))

\* the float64 nearest to n * 2^e (ties to even); sticky: the exact value lies
\* strictly between n * 2^e and (n + 1) * 2^e
RoundToFloat64(n, e, sticky) ==
    LET s == BitLength(n) - 53
    IN IF s <= 0 THEN [m |-> TrimLimbs(n), e |-> e]
       ELSE LET d == DivLimbs(n, 2^s)
                half == 2^(s - 1)
                q == TrimLimbs(d.q)
                up == \/ d.r > half
                      \/ d.r = half /\ (sticky \/ q[1] % 2 = 1)
            IN [m |-> IF up THEN AddOne(q) ELSE q, e |-> e + s]

\* float64(1.0) = 2^52 * 2^-52
Float64One == [m |-> <<0, 0, 0, 2^10>>, e |-> 0 - 52]

\* x / mult for a multiplier <<numerator, denominator>>
Float64Div(x, mult) ==
    LET d == DivLimbs(MulLimbs(x.m, mult[2] * 8, 0), mult[1])
    IN RoundToFloat64(TrimLimbs(d.q), x.e - 3, d.r # 0)

\* float64(k) * x for an int k below 2^11
Float64MulInt(x, k) == RoundToFloat64(TrimLimbs(MulLimbs(x.m, k, 0)), x.e, FALSE)

RECURSIVE ShiftRight(_, _)
ShiftRight(x, n) ==
    IF n = 0 THEN TrimLimbs(x)
    ELSE LET k == IF n > 13 THEN 13 ELSE n
         IN ShiftRight(DivLimbs(x, 2^k).q, n - k)

\* int(x) for a float64 below 2^28 with a negative exponent
Float64ToInt(x) ==
    LET t == ShiftRight(x.m, 0 - x.e)
    IN IF t = <<>> THEN 0
       ELSE IF Len(t) = 1 THEN t[1]
       ELSE t[1] + LimbBase * t[2]

\* reduction := 1.0; for i := 0; i < level; i++ { reduction /= BackoffMultiplier }
RECURSIVE Reduction(_, _)
Reduction(mult, level) ==
    IF level = 0 THEN Float64One ELSE Float64Div(Reduction(mult, level - 1), mult)

\* a limit computed as the exact quotient, rounded down
calculateCurrentLimit_Exact(cfg, limit) ==
    IF limit.BackoffLevel > 0
    THEN (cfg.BaseRequestsPerHour * Pow(cfg.BackoffMultiplier[2], limit.BackoffLevel))
            \div Pow(cfg.BackoffMultiplier[1], limit.BackoffLevel)
    ELSE cfg.BaseRequestsPerHour

\* int(float64(baseLimit) * reduction), in float64 as the code computes it
reducedLimit(mult, base, level) ==
    Float64ToInt(Float64MulInt(Reduction(mult, level), base))

\* the base capacities of the specifications below: small ones, the shipped one and a
\* multiple of 3^5
LimitBases == {120, 243}
ConfiguredBases == (1..MaxBase) \cup LimitBases

\* reducedLimit for every configuration and backoff level, computed once
ReducedLimits ==
    {<<mult, base, level, reducedLimit(mult, base, level)>> :
        mult \in Multipliers, base \in ConfiguredBases, level \in 1..MaxBackoffLevel}

\* calculateCurrentLimit: the base capacity at level 0, the reduced one above
calculateCurrentLimit(cfg, limit) ==
    IF limit.BackoffLevel > 0
    THEN (CHOOSE t \in ReducedLimits : /\ t[1] = cfg.BackoffMultiplier
                                       /\ t[2] = cfg.BaseRequestsPerHour
                                       /\ t[3] = limit.BackoffLevel)[4]
    ELSE cfg.BaseRequestsPerHour

\* a retry delay without the cap
calculateRetryAfter_Uncapped(cfg, limit) ==
    (limit.ConsecutiveRejects * BaseRetry * Pow(cfg.BackoffMultiplier[1], limit.BackoffLevel))
        \div Pow(cfg.BackoffMultiplier[2], limit.BackoffLevel)

\* min(maxRetry, ConsecutiveRejects x 30 s x multiplier^BackoffLevel)
calculateRetryAfter(cfg, limit) ==
    LET baseRetry == limit.ConsecutiveRejects * BaseRetry
        retryDuration == (baseRetry * Pow(cfg.BackoffMultiplier[1], limit.BackoffLevel))
                            \div Pow(cfg.BackoffMultiplier[2], limit.BackoffLevel)
    IN IF retryDuration > MaxRetry THEN MaxRetry ELSE retryDuration

\* an admission test that lets the request at the limit through
Admits_Inclusive(currentRequests, currentLimit) == currentRequests <= currentLimit

\* if limit.CurrentRequests < currentLimit
Admits(currentRequests, currentLimit) == currentRequests < currentLimit

NewVehicleRateLimit(cfg, vehicleID, t) ==
    [VehicleID |-> vehicleID, RequestsPerHour |-> cfg.BaseRequestsPerHour,
     CurrentRequests |-> 0, WindowStart |-> t, BackoffLevel |-> 0,
     LastRejection |-> ZeroTime, ConsecutiveRejects |-> 0]

\* a backoff that expires only after more than BackoffResetDuration
BackoffExpired_Strict(limit, t) == t - limit.LastRejection > ResetTicks

\* if now.Sub(limit.LastRejection) >= srl.globalConfig.BackoffResetDuration
BackoffExpired(limit, t) == t - limit.LastRejection >= ResetTicks

\* the body of CanMakeRequest at time t: the limit record it leaves behind and the
\* pair it returns
canMakeRequest(cfg, limits, vehicleID, priority, t) ==
    LET exists == vehicleID \in DOMAIN limits
        l0 == IF exists THEN limits[vehicleID] ELSE NewVehicleRateLimit(cfg, vehicleID, t)
        windowReset == t - l0.WindowStart >= WindowTicks
        l1 == IF windowReset THEN [l0 EXCEPT !.CurrentRequests = 0, !.WindowStart = t] ELSE l0
        l2 == IF BackoffExpired(l1, t)
              THEN [l1 EXCEPT !.BackoffLevel = 0, !.ConsecutiveRejects = 0]
              ELSE l1
        currentLimit == calculateCurrentLimit(cfg, l2)
                          + (IF priority = TelemetryPriorityCritical THEN cfg.BurstAllowance
                             ELSE 0)
        allowed == Admits(l2.CurrentRequests, currentLimit)
        l3 == IF allowed
              THEN [l2 EXCEPT !.CurrentRequests = @ + 1]
              ELSE [l2 EXCEPT !.ConsecutiveRejects = @ + 1,
                              !.LastRejection = t,
                              !.BackoffLevel = IF @ < MaxBackoffLevel THEN @ + 1 ELSE @]
    IN [limit |-> l3,
        allowed |-> allowed,
        retryAfter |-> IF allowed THEN 0 ELSE calculateRetryAfter(cfg, l3),
        newWindow |-> ~exists \/ windowReset]

NoCall == [vehicleID |-> 0, priority |-> TelemetryPriorityLow, allowed |-> FALSE, retryAfter |-> 0]

IdleRL ==
    /\ rlConfig = [BaseRequestsPerHour |-> 1, BackoffMultiplier |-> <<1, 1>>,
                   BurstAllowance |-> BurstBound]
    /\ vehicleLimits = EmptyMap
    /\ now = 0
    /\ rlCalls = 0
    /\ rlResult = NoCall
    /\ rlHist = [v \in RLVehicles |-> [calls |-> 0, critical |-> FALSE]]

\* a SmartRateLimiter with an empty vehicleLimits map
InitRL ==
    /\ rlConfig \in [BaseRequestsPerHour : 1..MaxBase, BackoffMultiplier : Multipliers,
                     BurstAllowance : {BurstBound}]
    /\ vehicleLimits = EmptyMap
    /\ now = 0
    /\ rlCalls = 0
    /\ rlResult = NoCall
    /\ rlHist = [v \in RLVehicles |-> [calls |-> 0, critical |-> FALSE]]

CanMakeRequest(vehicleID, priority) ==
    /\ rlCalls < MaxRLCalls
    /\ rlCalls' = rlCalls + 1
    /\ LET r == canMakeRequest(rlConfig, vehicleLimits, vehicleID, priority, now)
       IN /\ vehicleLimits' = MapPut(vehicleLimits, vehicleID, r.limit)
          /\ rlResult' = [vehicleID |-> vehicleID, priority |-> priority,
                          allowed |-> r.allowed, retryAfter |-> r.retryAfter]
          /\ rlHist' = [rlHist EXCEPT ![vehicleID] =
                          [calls |-> IF r.newWindow THEN 1 ELSE @.calls + 1,
                           critical |-> (IF r.newWindow THEN FALSE ELSE @.critical)
                                          \/ priority = TelemetryPriorityCritical]]
    /\ UNCHANGED <<rlConfig, now, otherThanRL>>

\* time passes
Tick ==
    /\ now < MaxTime
    /\ now' = now + 1
    /\ UNCHANGED <<rlConfig, vehicleLimits, rlCalls, rlResult, rlHist, otherThanRL>>

(* ------------------ SmartRateLimiter.RequestWithBackoff --------------- *)
MaxBackoffCalls == 2

\* maxRetries := 3
maxRetries == 3

NoRequest ==
    [pc |-> "idle", calls |-> 0, vehicleID |-> 0, priority |-> TelemetryPriorityLow,
     attempt |-> 0, attempts |-> 0, admitted |-> FALSE, timerFired |-> FALSE,
     ctxDone |-> FALSE, cancelledInWait |-> FALSE, actionCalls |-> 0,
     actionResult |-> "none", result |-> "none"]

\* nobody calls RequestWithBackoff
InitRWB == rwb = NoRequest

\* RequestWithBackoff(ctx, vehicleID, priority, requestFunc) is entered with a fresh ctx
RequestWithBackoff(vehicleID, priority) ==
    /\ rwb.pc \in {"idle", "returned"}
    /\ rwb.calls < MaxBackoffCalls
    /\ rwb' = [NoRequest EXCEPT !.pc = "attempt", !.calls = rwb.calls + 1,
                                !.vehicleID = vehicleID, !.priority = priority]
    /\ UNCHANGED <<rlVars, otherThanRWB>>

\* the loop test of a loop that goes round once more than maxRetries allows
LoopContinues_OneMore(attempt) == attempt < maxRetries + 1

\* for attempt := 0; attempt < maxRetries; attempt++
LoopContinues(attempt) == attempt < maxRetries

\* the loop test, then CanMakeRequest(vehicleID, priority); after the last attempt
\* the rate-limit-exceeded error is returned
BackoffAttempt ==
    /\ rwb.pc = "attempt"
    /\ IF LoopContinues(rwb.attempt)
       THEN LET r == canMakeRequest(rlConfig, vehicleLimits, rwb.vehicleID, rwb.priority, now)
            IN /\ vehicleLimits' = MapPut(vehicleLimits, rwb.vehicleID, r.limit)
               /\ rwb' = [rwb EXCEPT !.pc = IF r.allowed THEN "action" ELSE "wait",
                                     !.attempts = @ + 1,
                                     !.admitted = r.allowed,
                                     !.timerFired = FALSE,
                                     !.cancelledInWait = FALSE]
       ELSE /\ rwb' = [rwb EXCEPT !.pc = "returned", !.result = "rateLimitExceeded"]
            /\ UNCHANGED vehicleLimits
    /\ UNCHANGED <<rlConfig, now, rlCalls, rlResult, rlHist, otherThanRWB>>

\* return requestFunc()
BackoffAction(actionResult) ==
    /\ rwb.pc = "action"
    /\ rwb' = [rwb EXCEPT !.pc = "returned", !.actionCalls = @ + 1,
                          !.actionResult = actionResult, !.result = actionResult]
    /\ UNCHANGED <<rlVars, otherThanRWB>>

\* the timer of time.After(retryAfter) expires while the goroutine is parked in the
\* select: retryAfter is positive and finite, and the first event to arrive decides
\* the case the parked select takes
BackoffTimer ==
    /\ rwb.pc = "wait"
    /\ ~rwb.timerFired
    /\ ~rwb.ctxDone
    /\ rwb' = [rwb EXCEPT !.timerFired = TRUE]
    /\ UNCHANGED <<rlVars, otherThanRWB>>

\* the caller cancels ctx
BackoffCancel ==
    /\ rwb.pc \notin {"idle", "returned"}
    /\ ~rwb.ctxDone
    /\ rwb' = [rwb EXCEPT !.ctxDone = TRUE,
                          !.cancelledInWait = rwb.pc = "wait" /\ ~rwb.timerFired]
    /\ UNCHANGED <<rlVars, otherThanRWB>>

\* select { case <-time.After(retryAfter): continue; case <-ctx.Done(): return ctx.Err() }
BackoffSelect ==
    /\ rwb.pc = "wait"
    /\ \/ /\ rwb.timerFired
          /\ rwb' = [rwb EXCEPT !.pc = "attempt", !.attempt = @ + 1]
       \/ /\ rwb.ctxDone
          /\ ~rwb.timerFired
          /\ rwb' = [rwb EXCEPT !.pc = "returned", !.result = "ctxErr"]
    /\ UNCHANGED <<rlVars, otherThanRWB>>

(* ----------------------------- DeltaTracker --------------------------- *)
NumDTVehicles == 1
MaxDTCalls == 3

DTVehicles == 1..NumDTVehicles

\* NewDeltaTracker: the thresholds; TimeThreshold (15 min) is one tick
FuelLevelPercent == 5
LocationMeters == 100
SpeedKmh == 10
OdometerKm == 1
TimeThreshold == 1

\* the fields of models.Vehicle that ShouldUpdate reads; fuel in percent, a location
\* as a position in metres along a road
Observation(fuel, loc, speed, status, odo) ==
    [FuelLevel |-> fuel, Location |-> loc, Speed |-> speed, Status |-> status, Odometer |-> odo]

\* a base observation, one more per field just below and one on its threshold, one
\* with every field just below and one with every field on its threshold
Observations ==
    {Observation(50, 0, 60, "active", 100),
     Observation(54, 0, 60, "active", 100), Observation(55, 0, 60, "active", 100),
     Observation(50, 99, 60, "active", 100), Observation(50, 100, 60, "active", 100),
     Observation(50, 0, 69, "active", 100), Observation(50, 0, 70, "active", 100),
     Observation(50, 0, 60, "idle", 100), Observation(50, 0, 60, "active", 101),
     Observation(54, 99, 69, "active", 100), Observation(55, 100, 70, "idle", 101)}

Abs(x) == IF x < 0 THEN 0 - x ELSE x

\* calculateDistance, for positions along one road
calculateDistance(loc1, loc2) == Abs(loc2 - loc1)

createSnapshot(current, t) ==
    [FuelLevel |-> current.FuelLevel, Location |-> current.Location, Speed |-> current.Speed,
     Status |-> current.Status, Odometer |-> current.Odometer, LastUpdate |-> t]

FullUpdateKeys ==
    {"vehicleId", "fuelLevel", "location", "speed", "status", "odometer", "timestamp",
     "updateType"}

createFullUpdate(vehicleID, current, t) ==
    [k \in FullUpdateKeys |->
        CASE k = "vehicleId"  -> vehicleID
          [] k = "fuelLevel"  -> current.FuelLevel
          [] k = "location"   -> current.Location
          [] k = "speed"      -> current.Speed
          [] k = "status"     -> current.Status
          [] k = "odometer"   -> current.Odometer
          [] k = "timestamp"  -> t
          [] k = "updateType" -> "full"]

\* a comparison that counts every change as significant
ExceedsThreshold_AnyChange(change, threshold) == change > 0

\* if change >= threshold
ExceedsThreshold(change, threshold) == change >= threshold

\* a time check that never forces an update
TimeElapsed_Never(since, threshold) == FALSE

\* if time.Since(lastState.LastUpdate) > dt.thresholds.TimeThreshold
TimeElapsed(since, threshold) == since > threshold

\* a changes map that carries every field as soon as one field trips
deltaChanges_AllFields(vehicleID, last, current, t) ==
    IF \/ ExceedsThreshold(Abs(current.FuelLevel - last.FuelLevel), FuelLevelPercent)
       \/ ExceedsThreshold(calculateDistance(last.Location, current.Location), LocationMeters)
       \/ ExceedsThreshold(Abs(current.Speed - last.Speed), SpeedKmh)
       \/ current.Status # last.Status
       \/ ExceedsThreshold(Abs(current.Odometer - last.Odometer), OdometerKm)
    THEN createFullUpdate(vehicleID, current, t)
    ELSE EmptyMap

\* the changes map ShouldUpdate fills field by field
deltaChanges(vehicleID, last, current, t) ==
    LET c0 == EmptyMap
        c1 == IF ExceedsThreshold(Abs(current.FuelLevel - last.FuelLevel), FuelLevelPercent)
              THEN MapPut(MapPut(c0, "fuelLevel", current.FuelLevel),
                          "fuelChange", current.FuelLevel - last.FuelLevel)
              ELSE c0
        c2 == IF ExceedsThreshold(calculateDistance(last.Location, current.Location),
                                  LocationMeters)
              THEN MapPut(MapPut(c1, "location", current.Location),
                          "distanceMoved", calculateDistance(last.Location, current.Location))
              ELSE c1
        c3 == IF ExceedsThreshold(Abs(current.Speed - last.Speed), SpeedKmh)
              THEN MapPut(MapPut(c2, "speed", current.Speed),
                          "speedChange", current.Speed - last.Speed)
              ELSE c2
        c4 == IF current.Status # last.Status
              THEN MapPut(MapPut(c3, "status", current.Status), "previousStatus", last.Status)
              ELSE c3
        c5 == IF ExceedsThreshold(Abs(current.Odometer - last.Odometer), OdometerKm)
              THEN MapPut(MapPut(c4, "odometer", current.Odometer),
                          "odometerChange", current.Odometer - last.Odometer)
              ELSE c4
    IN IF DOMAIN c5 # {}
       THEN MapPut(MapPut(c5, "vehicleId", vehicleID), "timestamp", t)
       ELSE c5

\* the body of ShouldUpdate at time t: the map it leaves behind, the pair it
\* returns and the return statement it left by
shouldUpdate(states, vehicleID, current, t) ==
    IF vehicleID \notin DOMAIN states
    THEN [states |-> MapPut(states, vehicleID, createSnapshot(current, t)),
          significant |-> TRUE, changes |-> createFullUpdate(vehicleID, current, t),
          path |-> "first"]
    ELSE IF TimeElapsed(t - states[vehicleID].LastUpdate, TimeThreshold)
    THEN [states |-> MapPut(states, vehicleID, createSnapshot(current, t)),
          significant |-> TRUE, changes |-> createFullUpdate(vehicleID, current, t),
          path |-> "time"]
    ELSE LET changes == deltaChanges(vehicleID, states[vehicleID], current, t)
             hasSignificantChange == DOMAIN changes # {}
         IN [states |-> IF hasSignificantChange
                        THEN MapPut(states, vehicleID, createSnapshot(current, t))
                        ELSE states,
             significant |-> hasSignificantChange, changes |-> changes,
             path |-> "delta"]

NoObservation ==
    [FuelLevel |-> 0, Location |-> 0, Speed |-> 0, Status |-> "", Odometer |-> 0]

NoDTCall ==
    [vehicleID |-> 0, current |-> NoObservation, significant |-> FALSE, changes |-> EmptyMap,
     path |-> "none", prev |-> createSnapshot(NoObservation, 0), at |-> 0]

\* NewDeltaTracker(): no snapshot yet
InitDT ==
    /\ lastStates = EmptyMap
    /\ dtCalls = 0
    /\ dtResult = NoDTCall

ShouldUpdate(vehicleID, current) ==
    /\ dtCalls < MaxDTCalls
    /\ dtCalls' = dtCalls + 1
    /\ LET r == shouldUpdate(lastStates, vehicleID, current, now)
       IN /\ lastStates' = r.states
          /\ dtResult' = [vehicleID |-> vehicleID, current |-> current,
                          significant |-> r.significant, changes |-> r.changes,
                          path |-> r.path,
                          prev |-> IF vehicleID \in DOMAIN lastStates
                                   THEN lastStates[vehicleID]
                                   ELSE createSnapshot(NoObservation, 0),
                          at |-> now]
    /\ UNCHANGED otherThanDT

(* --------------------------- AdaptiveScheduler ------------------------ *)
NumSchedVehicles == 1
MaxSchedCalls == 3
MaxTicks == 3

SchedVehicles == 1..NumSchedVehicles

StateActive == "active"
StateIdle == "idle"
StateParked == "parked"
StateMaintenance == "maintenance"
StateOffline == "offline"
VehicleStates == {StateActive, StateIdle, StateParked, StateMaintenance, StateOffline}

\* NewAdaptiveScheduler: as.frequencies, in seconds
frequencies ==
    [st \in VehicleStates |->
        CASE st = StateActive -> [Interval |-> 30, MinInterval |-> 15, MaxInterval |-> 120]
          [] st = StateIdle -> [Interval |-> 120, MinInterval |-> 60, MaxInterval |-> 300]
          [] st = StateParked -> [Interval |-> 600, MinInterval |-> 300, MaxInterval |-> 1800]
          [] st = StateMaintenance -> [Interval |-> 1800, MinInterval |-> 900, MaxInterval |-> 7200]
          [] OTHER -> [Interval |-> 3600, MinInterval |-> 1800, MaxInterval |-> 21600]]

\* &VehicleSchedule{CurrentState: newState, stopChan: make(chan struct{})}: the other
\* fields hold their zero values, ticker is nil
NewVehicleSchedule(newState) ==
    [CurrentState |-> newState, UpdateInterval |-> 0, ConsecutiveIdle |-> 0,
     ticker |-> "nil", tickerInterval |-> 0, gen |-> 0]

\* an adjustment that scales by the idle cycles counted before this one
adjustUpdateFrequency_PreviousCount(schedule) ==
    LET freq == frequencies[schedule.CurrentState]
    IN IF schedule.CurrentState = StateIdle \/ schedule.CurrentState = StateParked
       THEN LET newInterval == (freq.Interval * (5 + schedule.ConsecutiveIdle)) \div 5
            IN [schedule EXCEPT !.ConsecutiveIdle = @ + 1,
                                !.UpdateInterval = IF newInterval > freq.MaxInterval
                                                   THEN freq.MaxInterval ELSE newInterval]
       ELSE [schedule EXCEPT !.UpdateInterval = freq.Interval]

\* adjustUpdateFrequency: Interval * (1.0 + ConsecutiveIdle * 0.2) is computed here as
\* Interval * (5 + ConsecutiveIdle) \div 5
adjustUpdateFrequency(schedule) ==
    LET freq == frequencies[schedule.CurrentState]
    IN IF schedule.CurrentState = StateIdle \/ schedule.CurrentState = StateParked
       THEN LET n == schedule.ConsecutiveIdle + 1
                newInterval == (freq.Interval * (5 + n)) \div 5
            IN [schedule EXCEPT !.ConsecutiveIdle = n,
                                !.UpdateInterval = IF newInterval > freq.MaxInterval
                                                   THEN freq.MaxInterval ELSE newInterval]
       ELSE [schedule EXCEPT !.UpdateInterval = freq.Interval]

NoSchedCall == [vehicleID |-> 0, newState |-> "", known |-> FALSE, changed |-> FALSE]

\* NewAdaptiveScheduler()
InitSched ==
    /\ schedVehicles = EmptyMap
    /\ goroutines = <<>>
    /\ tickerChans = {}
    /\ closedStop = {}
    /\ schedCtx = "live"
    /\ schedHist = [calls |-> 0, lateCalls |-> 0, ticks |-> 0, fires |-> 0, lateFires |-> 0,
                    lateRearms |-> 0, staleFires |-> 0, staleAdjusts |-> 0,
                    last |-> NoSchedCall]

\* UpdateVehicleState(vehicleID, newState, callback), with startScheduler when the state
\* differs: close(schedule.stopChan) panics when Stop has closed that channel already
UpdateVehicleState(vehicleID, newState) ==
    /\ schedCtx # "panicked"
    /\ schedHist.calls < MaxSchedCalls
    /\ LET known == vehicleID \in DOMAIN schedVehicles
           schedule == IF known THEN schedVehicles[vehicleID] ELSE NewVehicleSchedule(newState)
           changed == schedule.CurrentState # newState
           adjusted == adjustUpdateFrequency([schedule EXCEPT !.CurrentState = newState,
                                                              !.ConsecutiveIdle = 0])
           restart == adjusted.ticker # "nil"
           panics == restart /\ <<vehicleID, adjusted.gen>> \in closedStop
           started == [adjusted EXCEPT !.gen = IF restart THEN @ + 1 ELSE @,
                                       !.ticker = "running",
                                       !.tickerInterval = adjusted.UpdateInterval]
       IN /\ schedHist' = [schedHist EXCEPT !.calls = @ + 1,
                              !.lateCalls = IF schedCtx = "cancelled" THEN @ + 1 ELSE @,
                              !.last = [vehicleID |-> vehicleID, newState |-> newState,
                                        known |-> known, changed |-> changed]]
          /\ IF ~changed
             THEN /\ schedVehicles' = MapPut(schedVehicles, vehicleID, schedule)
                  /\ UNCHANGED <<goroutines, tickerChans, closedStop, schedCtx>>
             ELSE IF panics
             THEN /\ schedVehicles' = MapPut(schedVehicles, vehicleID,
                                             [adjusted EXCEPT !.ticker = "stopped"])
                  /\ schedCtx' = "panicked"
                  /\ UNCHANGED <<goroutines, tickerChans, closedStop>>
             ELSE /\ schedVehicles' = MapPut(schedVehicles, vehicleID, started)
                  /\ closedStop' = IF restart THEN closedStop \cup {<<vehicleID, adjusted.gen>>}
                                   ELSE closedStop
                  /\ goroutines' = Append(goroutines,
                                          [vehicleID |-> vehicleID, pc |-> "readTicker",
                                           tg |-> 0, sg |-> 0])
                  /\ UNCHANGED <<tickerChans, schedCtx>>
    /\ UNCHANGED otherThanSched

\* startScheduler has launched a later goroutine for the vehicle of goroutine g
Superseded(g) ==
    \E h \in DOMAIN goroutines : h > g /\ goroutines[h].vehicleID = goroutines[g].vehicleID

\* the runtime sends a tick on the running ticker's channel (capacity 1)
TickerFire(vehicleID) ==
    /\ schedCtx # "panicked"
    /\ schedHist.ticks < MaxTicks
    /\ vehicleID \in DOMAIN schedVehicles
    /\ schedVehicles[vehicleID].ticker = "running"
    /\ <<vehicleID, schedVehicles[vehicleID].gen>> \notin tickerChans
    /\ tickerChans' = tickerChans \cup {<<vehicleID, schedVehicles[vehicleID].gen>>}
    /\ schedHist' = [schedHist EXCEPT !.ticks = @ + 1]
    /\ UNCHANGED <<schedVehicles, goroutines, closedStop, schedCtx, otherThanSched>>

\* the goroutine evaluates schedule.ticker.C of its select, without as.mu
GoReadTicker(g) ==
    /\ schedCtx # "panicked"
    /\ goroutines[g].pc = "readTicker"
    /\ goroutines' = [goroutines EXCEPT ![g].pc = "readStop",
                                        ![g].tg = schedVehicles[goroutines[g].vehicleID].gen]
    /\ UNCHANGED <<schedVehicles, tickerChans, closedStop, schedCtx, schedHist, otherThanSched>>

\* the goroutine evaluates schedule.stopChan of its select, without as.mu
GoReadStop(g) ==
    /\ schedCtx # "panicked"
    /\ goroutines[g].pc = "readStop"
    /\ goroutines' = [goroutines EXCEPT ![g].pc = "select",
                                        ![g].sg = schedVehicles[goroutines[g].vehicleID].gen]
    /\ UNCHANGED <<schedVehicles, tickerChans, closedStop, schedCtx, schedHist, otherThanSched>>

\* select: case <-schedule.ticker.C
GoSelectTick(g) ==
    /\ schedCtx # "panicked"
    /\ goroutines[g].pc = "select"
    /\ <<goroutines[g].vehicleID, goroutines[g].tg>> \in tickerChans
    /\ tickerChans' = tickerChans \ {<<goroutines[g].vehicleID, goroutines[g].tg>>}
    /\ goroutines' = [goroutines EXCEPT ![g].pc = "callback"]
    /\ schedHist' = [schedHist EXCEPT !.staleFires = IF Superseded(g) THEN @ + 1 ELSE @]
    /\ UNCHANGED <<schedVehicles, closedStop, schedCtx, otherThanSched>>

\* select: case <-schedule.stopChan, case <-as.ctx.Done(): return
GoSelectStop(g) ==
    /\ schedCtx # "panicked"
    /\ goroutines[g].pc = "select"
    /\ \/ <<goroutines[g].vehicleID, goroutines[g].sg>> \in closedStop
       \/ schedCtx = "cancelled"
    /\ goroutines' = [goroutines EXCEPT ![g].pc = "returned"]
    /\ UNCHANGED <<schedVehicles, tickerChans, closedStop, schedCtx, schedHist, otherThanSched>>

\* callback(schedule.VehicleID)
GoCallback(g) ==
    /\ schedCtx # "panicked"
    /\ goroutines[g].pc = "callback"
    /\ goroutines' = [goroutines EXCEPT ![g].pc = "lock"]
    /\ schedHist' = [schedHist EXCEPT !.fires = @ + 1,
                        !.lateFires = IF schedCtx = "cancelled" THEN @ + 1 ELSE @]
    /\ UNCHANGED <<schedVehicles, tickerChans, closedStop, schedCtx, otherThanSched>>

\* as.mu.Lock(); adjustUpdateFrequency(schedule); schedule.ticker.Reset(UpdateInterval):
\* Reset restarts a stopped ticker; whether it discards a tick already in the channel
\* depends on the Go release (dropStale)
GoReadjust(g, dropStale) ==
    /\ schedCtx # "panicked"
    /\ goroutines[g].pc = "lock"
    /\ LET v == goroutines[g].vehicleID
           adjusted == adjustUpdateFrequency(schedVehicles[v])
       IN /\ schedVehicles' = [schedVehicles EXCEPT
                                 ![v] = [adjusted EXCEPT !.ticker = "running",
                                            !.tickerInterval = adjusted.UpdateInterval]]
          /\ tickerChans' = IF dropStale THEN tickerChans \ {<<v, adjusted.gen>>}
                            ELSE tickerChans
          /\ schedHist' = [schedHist EXCEPT
                             !.lateRearms = IF schedCtx = "cancelled" THEN @ + 1 ELSE @,
                             !.staleAdjusts = IF Superseded(g) THEN @ + 1 ELSE @]
    /\ goroutines' = [goroutines EXCEPT ![g].pc = "readTicker"]
    /\ UNCHANGED <<closedStop, schedCtx, otherThanSched>>

\* Stop(): as.cancel(), then ticker.Stop() and close(stopChan) for every schedule
\* with a ticker; closing a channel twice panics
SchedulerStop ==
    /\ schedCtx # "panicked"
    /\ LET withTicker == {v \in DOMAIN schedVehicles : schedVehicles[v].ticker # "nil"}
           closing == {<<v, schedVehicles[v].gen>> : v \in withTicker}
       IN /\ schedVehicles' = [v \in DOMAIN schedVehicles |->
                                 IF v \in withTicker
                                 THEN [schedVehicles[v] EXCEPT !.ticker = "stopped"]
                                 ELSE schedVehicles[v]]
          /\ schedCtx' = IF closing \cap closedStop # {} THEN "panicked" ELSE "cancelled"
          /\ closedStop' = closedStop \cup closing
    /\ UNCHANGED <<goroutines, tickerChans, schedHist, otherThanSched>>

(* ---------------------- OptimizedTelemetryService --------------------- *)
MaxSvcCalls == 3

TelemetryPriorityMedium == 1
TelemetryPriorityHigh == 2

\* determinePriority(vehicle); the observations carry no alerts
determinePriority(vehicle) ==
    IF vehicle.FuelLevel < 10 \/ vehicle.Status = "maintenance" THEN TelemetryPriorityCritical
    ELSE IF vehicle.Speed > 80 \/ vehicle.Status = "active" THEN TelemetryPriorityHigh
    ELSE IF vehicle.Status = "idle" THEN TelemetryPriorityMedium
    ELSE TelemetryPriorityLow

NoSvcCall == [vehicleID |-> 0, consulted |-> <<>>, outcome |-> "none"]

\* convertToBatchUpdate(changes): the five fields the changes map holds, the others nil
convertToBatchUpdate(changes, t) ==
    LET get(k) == IF k \in DOMAIN changes THEN changes[k] ELSE Absent
    IN [FuelLevel |-> get("fuelLevel"), Location |-> get("location"), Speed |-> get("speed"),
        Status |-> IF "status" \in DOMAIN changes THEN changes["status"] ELSE AbsentStr,
        Odometer |-> get("odometer"), Timestamp |-> t]

\* the batch processor's variables without its intake channel
batchButChan == <<config, queueCap, addLimit, updates, ctxDone, stopPc, worker, pb, stats,
                  bulkMode, singleFails, repoWrites, broadcast, wsRunning, clock, addErr,
                  accSince, movedSince, acceptedPreStop>>

\* NewOptimizedTelemetryService: every optimisation enabled, zero statistics
InitSvc ==
    /\ svcStats = [TotalUpdatesRequested |-> 0, RateLimitRejects |-> 0, DeltaSkips |-> 0]
    /\ svcResult = NoSvcCall

\* ProcessVehicleUpdate(vehicleID, vehicle) with EnableRateLimiting, EnableDeltaUpdates
\* and EnableBatching: rate limiter, then delta tracker, then processDeltaUpdate, which
\* hands the converted changes to batchProcessor.AddUpdate
ProcessVehicleUpdate(vehicleID, vehicle) ==
    /\ svcStats.TotalUpdatesRequested < MaxSvcCalls
    /\ LET rl == canMakeRequest(rlConfig, vehicleLimits, vehicleID,
                                determinePriority(vehicle), now)
           dt == shouldUpdate(lastStates, vehicleID, vehicle, now)
           req == [vehicleID |-> vehicleID, update |-> convertToBatchUpdate(dt.changes, now)]
       IN /\ vehicleLimits' = MapPut(vehicleLimits, vehicleID, rl.limit)
          /\ IF ~rl.allowed
             THEN /\ svcStats' = [svcStats EXCEPT !.TotalUpdatesRequested = @ + 1,
                                                  !.RateLimitRejects = @ + 1]
                  /\ svcResult' = [vehicleID |-> vehicleID, consulted |-> <<"rateLimiter">>,
                                   outcome |-> "rejected"]
                  /\ UNCHANGED <<lastStates, updateChan>>
             ELSE /\ lastStates' = dt.states
                  /\ svcStats' = [svcStats EXCEPT !.TotalUpdatesRequested = @ + 1,
                                     !.DeltaSkips = IF dt.significant THEN @ ELSE @ + 1]
                  /\ IF ~dt.significant
                     THEN /\ svcResult' = [vehicleID |-> vehicleID,
                                           consulted |-> <<"rateLimiter", "deltaTracker">>,
                                           outcome |-> "skipped"]
                          /\ UNCHANGED updateChan
                     ELSE \/ /\ CanSend(updateChan, queueCap)
                             /\ updateChan' = Append(updateChan, req)
                             /\ svcResult' = [vehicleID |-> vehicleID,
                                   consulted |-> <<"rateLimiter", "deltaTracker">>,
                                   outcome |-> "forwarded"]
                          \/ /\ ctxDone
                             /\ svcResult' = [vehicleID |-> vehicleID,
                                   consulted |-> <<"rateLimiter", "deltaTracker">>,
                                   outcome |-> "stopped"]
                             /\ UNCHANGED updateChan
                          \/ /\ ~CanSend(updateChan, queueCap)
                             /\ ~ctxDone
                             /\ svcResult' = [vehicleID |-> vehicleID,
                                   consulted |-> <<"rateLimiter", "deltaTracker">>,
                                   outcome |-> "queueFull"]
                             /\ UNCHANGED updateChan
    /\ UNCHANGED <<rlConfig, now, rlCalls, rlResult, rlHist, dtCalls, dtResult>>
    /\ UNCHANGED <<batchButChan, splitVars, wsVars, schedVars, rwbVars, flushVars>>

(* ------------------ ProcessBatch called concurrently ------------------ *)
MaxFlushAdds == 3
MaxFlushCalls == 3

\* the goroutines that call ProcessBatch: the worker and a direct caller
Flushers == {"worker", "direct"}

NoFlush ==
    [mux |-> "free", pc |-> [f \in Flushers |-> "idle"],
     currentUpdates |-> [f \in Flushers |-> EmptyMap], adds |-> 0, calls |-> 0,
     added |-> {}, replaced |-> {}, taken |-> <<>>]

InitFlush == flush = NoFlush

\* a critical section that does not take bp.updatesMux
MuxFree_NoLock == TRUE

\* bp.updatesMux can be locked
MuxFree == flush.mux = "free"

\* the batch processor's variables without the pending buffer
batchButUpdates == <<config, queueCap, addLimit, updateChan, ctxDone, stopPc, worker, pb, stats,
                     bulkMode, singleFails, repoWrites, broadcast, wsRunning, clock, addErr,
                     accSince, movedSince, acceptedPreStop>>

\* what is left alone by a step on the pending buffer
otherThanFlush == <<batchButUpdates, splitVars, rlVars, dtVars, wsVars, schedVars, svcVars,
                    rwbVars>>

\* addToCurrentBatch(vehicleID, update): Lock, bp.updates[vehicleID] = update, Unlock
AddToCurrentBatch(vehicleID, fields) ==
    /\ MuxFree
    /\ flush.adds < MaxFlushAdds
    /\ LET update == VehicleUpdateData(fields, flush.adds + 1)
           entry == [vehicleID |-> vehicleID, update |-> update]
           old == IF vehicleID \in DOMAIN updates
                  THEN {[vehicleID |-> vehicleID, update |-> updates[vehicleID]]} ELSE {}
       IN /\ updates' = addToCurrentBatch(updates, vehicleID, update)
          /\ flush' = [flush EXCEPT !.adds = @ + 1, !.added = @ \cup {entry},
                                    !.replaced = @ \cup old]
    /\ UNCHANGED otherThanFlush

\* ProcessBatch: bp.updatesMux.Lock()
FlushLock(f) ==
    /\ flush.pc[f] = "idle"
    /\ flush.calls < MaxFlushCalls
    /\ MuxFree
    /\ flush' = [flush EXCEPT !.mux = f, !.pc[f] = "copy", !.calls = @ + 1]
    /\ UNCHANGED <<updates, otherThanFlush>>

\* ProcessBatch: the range loop that copies bp.updates into currentUpdates
FlushCopy(f) ==
    /\ flush.pc[f] = "copy"
    /\ flush' = [flush EXCEPT !.pc[f] = "clear", !.currentUpdates[f] = updates]
    /\ UNCHANGED <<updates, otherThanFlush>>

\* ProcessBatch: bp.updates = make(map[string]VehicleUpdateData); the caller now
\* holds its batch
FlushClear(f) ==
    /\ flush.pc[f] = "clear"
    /\ updates' = EmptyMap
    /\ flush' = [flush EXCEPT !.pc[f] = "unlock",
                              !.taken = Append(@, [by |-> f, batch |-> flush.currentUpdates[f]])]
    /\ UNCHANGED otherThanFlush

\* ProcessBatch: bp.updatesMux.Unlock()
FlushUnlock(f) ==
    /\ flush.pc[f] = "unlock"
    /\ flush' = [flush EXCEPT !.mux = "free", !.pc[f] = "process"]
    /\ UNCHANGED <<updates, otherThanFlush>>

\* ProcessBatch: the batch is split and written, the call returns
FlushReturn(f) ==
    /\ flush.pc[f] = "process"
    /\ flush' = [flush EXCEPT !.pc[f] = "idle", !.currentUpdates[f] = EmptyMap]
    /\ UNCHANGED <<updates, otherThanFlush>>

(* ------------------------------ Specs --------------------------------- *)
NextBatch ==
    \/ \E v \in Vehicles, f \in FieldChoices : AddUpdate(v, f)
    \/ Start
    \/ StopCall
    \/ StopReturn
    \/ \E size \in 1..MaxBatchSizeBound : SetBatchSize(size)
    \/ WorkerReceive
    \/ WorkerTick
    \/ WorkerMaxWait
    \/ WorkerCtxDone
    \/ BulkWrite
    \/ RetryBackoff
    \/ BroadcastStep
    \/ FallbackStep
    \/ SubBatchDone
    \/ ManagerStart
    \/ ManagerReceive

\* sub-batches against a repository whose bulk write fails, for 0 to 3 retries
MaxRetryAttempts == 3
MaxAddsRetry == 2
InitRetry == InitBatchWith(MaxAddsRetry, {"fail", "flaky"}, 0..MaxRetryAttempts) /\ IdleSplit /\ IdleRL /\ InitDT /\ InitWS /\ InitSched /\ InitSvc /\ InitRWB /\ InitFlush
NextRetry ==
    \/ \E v \in Vehicles, f \in FieldChoices : AddUpdate(v, f)
    \/ Start
    \/ StopCall
    \/ StopReturn
    \/ WorkerReceive
    \/ WorkerTick
    \/ WorkerCtxDone
    \/ BulkWrite
    \/ RetryBackoff
    \/ BroadcastStep
    \/ FallbackStep
    \/ SubBatchDone
SpecRetry == InitRetry /\ [][NextRetry]_vars

\* the batch processor against a repository of any behaviour
Init == InitBatch(MaxAdds, {"ok", "fail", "flaky"}) /\ IdleSplit /\ IdleRL /\ InitDT /\ InitWS /\ InitSched /\ InitSvc /\ InitRWB /\ InitFlush
Next == NextBatch
Spec == Init /\ [][Next]_vars

\* the batch processor against a repository whose writes all succeed
InitReliable == InitBatch(MaxAddsReliable, {"ok"}) /\ IdleSplit /\ IdleRL /\ InitDT /\ InitWS /\ InitSched /\ InitSvc /\ InitRWB /\ InitFlush
NextReliable ==
    \/ \E v \in Vehicles, f \in FieldChoices : AddUpdate(v, f)
    \/ Start
    \/ StopCall
    \/ StopReturn
    \/ \E size \in 1..MaxBatchSizeBound : SetBatchSize(size)
    \/ WorkerReceive
    \/ WorkerTick
    \/ WorkerMaxWait
    \/ WorkerCtxDone
    \/ BulkWrite
    \/ BroadcastStep
    \/ SubBatchDone
    \/ ManagerStart
    \/ ManagerReceive
SpecReliable == InitReliable /\ [][NextReliable]_vars

\* the same processor under a ticker that keeps firing: time.NewTicker(BatchInterval)
\* delivers a tick every interval and select takes a ready case, so the worker does
\* not wait in its select for ever without taking `case <-ticker.C`
InitWorkerLive == InitBatch(MaxAddsLive, {"ok"}) /\ IdleSplit /\ IdleRL /\ InitDT /\ InitWS /\ InitSched /\ InitSvc /\ InitRWB /\ InitFlush
SpecWorkerLive == InitWorkerLive /\ [][NextReliable]_vars /\ WF_vars(WorkerTick)

\* a batch processor nobody uses
IdleBatch == InitBatch(0, {"ok"}) /\ config.MaxBatchSize = 1

\* splitIntoBatches applied to every buffer, iteration order and MaxBatchSize
InitSplitOnly == IdleBatch /\ InitSplit /\ IdleRL /\ InitDT /\ InitWS /\ InitSched /\ InitSvc /\ InitRWB /\ InitFlush
NextSplit == SplitCall
SpecSplit == InitSplitOnly /\ [][NextSplit]_vars

\* the rate limiter under every configuration, with callers of every priority
InitRateLimit == IdleBatch /\ IdleSplit /\ InitRL /\ InitDT /\ InitWS /\ InitSched /\ InitSvc /\ InitRWB /\ InitFlush
NextRateLimit ==
    \/ \E v \in RLVehicles, p \in TelemetryPriorities : CanMakeRequest(v, p)
    \/ Tick
SpecRateLimit == InitRateLimit /\ [][NextRateLimit]_vars

\* CanMakeRequest on a limiter in the middle of its life: the shipped base capacity
\* and one that is a multiple of 3^5, multiplier 1.5, a vehicle at any backoff level
\* whose window counter is around the capacity of that level
LimitStates(cfg) ==
    {[VehicleID |-> 1, RequestsPerHour |-> cfg.BaseRequestsPerHour, CurrentRequests |-> n,
      WindowStart |-> 0, BackoffLevel |-> level,
      LastRejection |-> IF level = 0 THEN ZeroTime ELSE 0, ConsecutiveRejects |-> level] :
        level \in 0..MaxBackoffLevel,
        n \in {k \in 0..(cfg.BaseRequestsPerHour + cfg.BurstAllowance) :
                 \E l \in 0..MaxBackoffLevel :
                    LET c == calculateCurrentLimit_Exact(cfg, [BackoffLevel |-> l])
                    IN k \in (c - 1)..(c + cfg.BurstAllowance)}}
InitLimitStates ==
    /\ IdleBatch /\ IdleSplit /\ InitDT /\ InitWS /\ InitSched /\ InitSvc /\ InitRWB /\ InitFlush
    /\ rlConfig \in [BaseRequestsPerHour : LimitBases, BackoffMultiplier : {<<3, 2>>},
                     BurstAllowance : {BurstBound}]
    /\ \E l \in LimitStates(rlConfig) : vehicleLimits = [v \in {1} |-> l]
    /\ now = 0
    /\ rlCalls = MaxRLCalls - 2
    /\ rlResult = NoCall
    /\ rlHist = [v \in RLVehicles |-> [calls |-> 0, critical |-> FALSE]]
SpecLimitStates == InitLimitStates /\ [][NextRateLimit]_vars

\* RequestWithBackoff called repeatedly as time passes: the call's goroutine keeps
\* running, the timer of time.After expires after its finite duration unless ctx is
\* cancelled first, and requestFunc returns
NextBackoff ==
    \/ \E v \in RLVehicles, p \in TelemetryPriorities : RequestWithBackoff(v, p)
    \/ BackoffAttempt
    \/ \E actionResult \in {"nil", "actionErr"} : BackoffAction(actionResult)
    \/ BackoffTimer
    \/ BackoffCancel
    \/ BackoffSelect
    \/ Tick
SpecBackoffLive ==
    /\ InitRateLimit
    /\ [][NextBackoff]_vars
    /\ WF_vars(BackoffAttempt)
    /\ WF_vars(\E actionResult \in {"nil", "actionErr"} : BackoffAction(actionResult))
    /\ WF_vars(BackoffTimer)
    /\ WF_vars(BackoffSelect)

\* the delta tracker fed observations on and around its thresholds, as time passes
InitDelta == IdleBatch /\ IdleSplit /\ IdleRL /\ InitDT /\ InitWS /\ InitSched /\ InitSvc /\ InitRWB /\ InitFlush
NextDelta ==
    \/ \E v \in DTVehicles, current \in Observations : ShouldUpdate(v, current)
    \/ Tick
SpecDelta == InitDelta /\ [][NextDelta]_vars

\* the manager with subscribers, their writers and a caller of BroadcastBatchUpdates
InitManager == IdleBatch /\ IdleSplit /\ IdleRL /\ InitDT /\ InitWS /\ InitSched /\ InitSvc /\ InitRWB /\ InitFlush
NextManager ==
    \/ ManagerStart
    \/ \E c \in WSClients, f \in FilterChoices : RegisterClient(c, f)
    \/ \E ups \in WSBatches : BroadcastBatchUpdatesCall(ups)
    \/ BroadcastBatchSend
    \/ ManagerReceive
    \/ \E c \in WSClients : WriteMessages(c)
SpecManager == InitManager /\ [][NextManager]_vars

\* the update broadcast and the filters clients switch between in that specification
RegistryMessages == {WSMessage(1, "active", PriorityLow)}
RegistryFilters == {NoFilters, [NoFilters EXCEPT !.VehicleIDs = {2}]}

\* the manager's registry: registration, heartbeats, filter updates, unregistration,
\* the heartbeat sweep, broadcasts and Stop, as time passes
NextRegistry ==
    \/ ManagerStart
    \/ \E c \in WSClients, f \in {NoFilters} : RegisterClient(c, f)
    \/ \E update \in RegistryMessages : BroadcastVehicleUpdate(update)
    \/ ManagerReceive
    \/ \E c \in WSClients : PongReceived(c)
    \/ \E c \in WSClients, f \in RegistryFilters : UpdateFilters(c, f)
    \/ \E c \in WSClients : UnregisterClient(c)
    \/ \E c \in WSClients : HandleClientExit(c)
    \/ \E c \in WSClients : ManagerUnregister(c)
    \/ HealthCheck
    \/ ManagerStop
    \/ ManagerExit
    \/ Tick
SpecRegistry == InitManager /\ [][NextRegistry]_vars

\* the manager's life cycle seen by the callers of RegisterClient and UnregisterClient
\* and by the clients' readers: Manager.run, once started, keeps taking a ready case of
\* its select until it returns; nobody is obliged to call Start or Stop
NextLifecycle ==
    \/ ManagerStart
    \/ \E c \in WSClients : RegisterClient(c, NoFilters)
    \/ \E c \in WSClients : RegisterClientSend(c, NoFilters)
    \/ \E c \in WSClients : ManagerRegister(c)
    \/ \E c \in WSClients : UnregisterClient(c)
    \/ \E c \in WSClients : HandleClientExit(c)
    \/ \E c \in WSClients : ManagerUnregister(c)
    \/ ManagerStop
    \/ ManagerExit
    \/ Tick
LoopStep ==
    \/ \E c \in WSClients : ManagerRegister(c)
    \/ \E c \in WSClients : ManagerUnregister(c)
    \/ ManagerExit
SpecLifecycle == InitManager /\ [][NextLifecycle]_vars /\ WF_vars(LoopStep)

\* the batch processor fed with one update of any combination of fuel level, speed and
\* status, around the thresholds of convertToWebSocketUpdate, against a repository
\* whose writes succeed
MaxAddsConvert == 1
ConvertChoices ==
    [FuelLevel : {Absent, 5, 15, 50}, Location : {Absent}, Speed : {Absent, 60, 90},
     Status : {AbsentStr, "active", "maintenance", "offline"}, Odometer : {Absent, 1000}]
InitConvert == InitBatch(MaxAddsConvert, {"ok"}) /\ IdleSplit /\ IdleRL /\ InitDT /\ InitWS /\ InitSched /\ InitSvc /\ InitRWB /\ InitFlush
NextConvert ==
    \/ \E v \in Vehicles, f \in ConvertChoices : AddUpdate(v, f)
    \/ Start
    \/ WorkerReceive
    \/ WorkerTick
    \/ BulkWrite
    \/ BroadcastStep
    \/ SubBatchDone
    \/ ManagerStart
    \/ ManagerReceive
SpecConvert == InitConvert /\ [][NextConvert]_vars

\* the scheduler with its callers, its tickers and the goroutines it launches
InitScheduler == IdleBatch /\ IdleSplit /\ IdleRL /\ InitDT /\ InitWS /\ InitSched /\ InitSvc /\ InitRWB /\ InitFlush
NextScheduler ==
    \/ \E v \in SchedVehicles, st \in VehicleStates : UpdateVehicleState(v, st)
    \/ \E v \in SchedVehicles : TickerFire(v)
    \/ \E g \in DOMAIN goroutines : GoReadTicker(g)
    \/ \E g \in DOMAIN goroutines : GoReadStop(g)
    \/ \E g \in DOMAIN goroutines : GoSelectTick(g)
    \/ \E g \in DOMAIN goroutines : GoSelectStop(g)
    \/ \E g \in DOMAIN goroutines : GoCallback(g)
    \/ \E g \in DOMAIN goroutines, dropStale \in BOOLEAN : GoReadjust(g, dropStale)
    \/ SchedulerStop
SpecScheduler == InitScheduler /\ [][NextScheduler]_vars

\* the scheduler in the middle of a vehicle's life: the vehicle was registered, a
\* state change started its timer, and the timer has fired any number of times since;
\* calls and ticks are counted from here on
MaxIdleCycles == 11
RunningSchedules ==
    {LET adjusted == [CurrentState |-> st, ConsecutiveIdle |-> n - 1, UpdateInterval |-> 0,
                      ticker |-> "running", tickerInterval |-> 0, gen |-> 0]
         schedule == adjustUpdateFrequency(adjusted)
     IN [schedule EXCEPT !.tickerInterval = schedule.UpdateInterval] :
        st \in {StateIdle, StateParked}, n \in 1..MaxIdleCycles}
    \cup {[CurrentState |-> st, ConsecutiveIdle |-> 0,
           UpdateInterval |-> frequencies[st].Interval, ticker |-> "running",
           tickerInterval |-> frequencies[st].Interval, gen |-> 0] :
            st \in VehicleStates \ {StateIdle, StateParked}}
InitIdleGrowth ==
    /\ IdleBatch /\ IdleSplit /\ IdleRL /\ InitDT /\ InitWS /\ InitSvc /\ InitRWB /\ InitFlush
    /\ \E schedule \in RunningSchedules :
          /\ schedVehicles = [v \in {1} |-> schedule]
          /\ schedHist = [calls |-> MaxSchedCalls - 1, lateCalls |-> 0, ticks |-> 0,
                          fires |-> 0, lateFires |-> 0, lateRearms |-> 0, staleFires |-> 0,
                          staleAdjusts |-> 0,
                          last |-> [vehicleID |-> 1, newState |-> schedule.CurrentState,
                                    known |-> TRUE, changed |-> TRUE]]
    /\ goroutines = <<[vehicleID |-> 1, pc |-> "readTicker", tg |-> 0, sg |-> 0]>>
    /\ tickerChans = {}
    /\ closedStop = {}
    /\ schedCtx = "live"
SpecIdleGrowth == InitIdleGrowth /\ [][NextScheduler]_vars

\* the service's update pipeline over its rate limiter and delta tracker
InitPipeline == IdleBatch /\ IdleSplit /\ InitRL /\ InitDT /\ InitWS /\ InitSched /\ InitSvc /\ InitRWB /\ InitFlush
NextPipeline ==
    \/ \E v \in DTVehicles, vehicle \in Observations : ProcessVehicleUpdate(v, vehicle)
    \/ Start
    \/ StopCall
    \/ Tick
SpecPipeline == InitPipeline /\ [][NextPipeline]_vars

\* the worker and a direct caller flush the pending buffer while updates are added
InitFlushRace == IdleBatch /\ IdleSplit /\ IdleRL /\ InitDT /\ InitWS /\ InitSched /\ InitSvc /\ InitRWB /\ InitFlush
NextFlushRace ==
    \/ \E v \in Vehicles, f \in FieldChoices : AddToCurrentBatch(v, f)
    \/ \E f \in Flushers : FlushLock(f)
    \/ \E f \in Flushers : FlushCopy(f)
    \/ \E f \in Flushers : FlushClear(f)
    \/ \E f \in Flushers : FlushUnlock(f)
    \/ \E f \in Flushers : FlushReturn(f)
SpecFlushRace == InitFlushRace /\ [][NextFlushRace]_vars


(* ============================ properties ============================== *)
\* the state right after ProcessBatch has swapped the buffer out and split it
FreshFlush == pb.pc = "attempt" /\ pb.bulkCalls = 0 /\ Len(pb.batches) = pb.nBatches

\* the sub-batches of the flush in progress that hold an entry for vehicle v
SubBatchesOf(v) == {i \in 1..Len(pb.batches) : v \in DOMAIN pb.batches[i]}

\* vehicle v of batch was written with the batch's contents by a call of kind via
IsWritten(batch, v, via) ==
    [vehicleID |-> v, update |-> batch[v], via |-> via] \in repoWrites

C2_NoLossOnStop ==
    (stopPc = "returned" /\ bulkMode = "ok") =>
        \A req \in acceptedPreStop :
            (\A other \in acceptedPreStop :
                other.vehicleID = req.vehicleID
                    => other.update.Timestamp <= req.update.Timestamp)
            => \E w \in repoWrites : w.vehicleID = req.vehicleID /\ w.update = req.update

BulkFailsSingleSucceeds == bulkMode = "fail" /\ singleFails = {}

\* every entity of the current sub-batch was written by exactly one UpdateVehicle call
AllWrittenIndividually ==
    LET batch == Head(pb.batches) IN
    /\ Len(pb.singleCalls) = Cardinality(DOMAIN batch)
    /\ Range(pb.singleCalls) = DOMAIN batch
    /\ \A v \in DOMAIN batch : IsWritten(batch, v, "single")

\* C3 as stated: against a repository whose bulk write always fails and whose
\* per-entity write always succeeds every flushed sub-batch is persisted entity by
\* entity, FailedUpdates stays 0 and ProcessBatch returns nil.
C3_Original ==
    BulkFailsSingleSucceeds =>
        /\ pb.pc = "subdone" => (pb.subErr = ErrNil /\ AllWrittenIndividually)
        /\ stats.FailedUpdates = 0
        /\ pb.result = ErrNil

\* C3 amended: the same, unless the shutdown signal arrives during a retry backoff
\* of the flush: that sub-batch is then abandoned with an error, unwritten and
\* without fallback, and ProcessBatch reports the failed sub-batch.
C3_FallbackSucceeds ==
    BulkFailsSingleSucceeds =>
        /\ (pb.pc = "subdone" /\ pb.path # "stopped")
              => (pb.subErr = ErrNil /\ pb.path = "fallback" /\ AllWrittenIndividually)
        /\ (pb.pc = "subdone" /\ pb.path = "stopped")
              => (ctxDone /\ pb.subErr = ErrStoppedDuringRetry /\ pb.singleCalls = <<>>)
        /\ stats.FailedUpdates = 0
        /\ (pb.pc = "idle" /\ ~pb.stoppedIn) => pb.result = ErrNil

\* C3 witness: a sub-batch of two entities persisted by the fallback
C3_Witness ==
    /\ BulkFailsSingleSucceeds
    /\ pb.pc = "subdone"
    /\ pb.path = "fallback"
    /\ pb.bulkCalls = config.RetryAttempts + 1
    /\ Cardinality(DOMAIN Head(pb.batches)) = 2
    /\ AllWrittenIndividually

\* C4 as stated: when exactly one per-entity fallback write of a flush failed, the
\* error ProcessBatch returns names the failing entity.
C4_Original ==
    (pb.pc = "idle" /\ Cardinality(pb.failedIn) = 1) => pb.failedIn \subseteq pb.result.vehicles

\* C4 amended: when the bulk write failed on all attempts and exactly one
\* per-entity fallback write failed, processSingleBatch returns the aggregate error
\* naming exactly that entity, every other entity of the sub-batch is written
\* individually and FailedUpdates has grown by exactly one; ProcessBatch itself
\* returns an error that only counts the failed sub-batches and names no entity.
C4_FallbackFailure ==
    /\ (pb.pc = "subdone" /\ pb.path = "fallback" /\ Cardinality(pb.errors) = 1) =>
          LET batch == Head(pb.batches) IN
          /\ pb.bulkCalls = config.RetryAttempts + 1
          /\ pb.subErr = ErrIndividual(pb.errors)
          /\ Range(pb.singleCalls) = DOMAIN batch
          /\ Len(pb.singleCalls) = Cardinality(DOMAIN batch)
          /\ \A v \in (DOMAIN batch) \ pb.errors : IsWritten(batch, v, "single")
          /\ stats.FailedUpdates = pb.failedBefore + 1
    /\ (pb.pc = "idle" /\ pb.failedIn # {}) =>
          /\ pb.result.kind = "failed to process batches"
          /\ pb.result.vehicles = {}
          /\ pb.result.failed >= 1

\* C4 witness: a sub-batch of two entities, one of which failed in the fallback
C4_Witness ==
    /\ pb.pc = "subdone"
    /\ pb.path = "fallback"
    /\ Cardinality(pb.errors) = 1
    /\ Cardinality(DOMAIN Head(pb.batches)) = 2


\* C6 as stated: once Stop has been called, every AddUpdate returns an error and
\* leaves the intake queue as it was.
C6_RejectAfterStop ==
    [][(stopPc # "none" /\ clock' # clock) => (addErr' # ErrNil /\ updateChan' = updateChan)]_vars

\* the timestamps of every update held in the queue, the buffer, the flush in
\* progress and the repository
HeldTimestamps ==
    {updateChan[i].update.Timestamp : i \in 1..Len(updateChan)}
      \cup {updates[v].Timestamp : v \in DOMAIN updates}
      \cup UNION {{pb.batches[i][v].Timestamp : v \in DOMAIN pb.batches[i]} :
                    i \in 1..Len(pb.batches)}
      \cup {w.update.Timestamp : w \in repoWrites}

\* C7: AddUpdate can always take a step, whatever the queue holds; the queue's
\* capacity is fixed at construction at twice MaxBatchSize; a call that finds the
\* queue full returns an error ("update queue is full" unless the processor is
\* stopped) and leaves queue and buffer unchanged; and the update of a rejected
\* call is held nowhere afterwards.
C7_NeverBlocks ==
    [][/\ clock < addLimit => ENABLED (\E v \in Vehicles, f \in FieldChoices : AddUpdate(v, f))
       /\ queueCap' = queueCap
       /\ (clock' # clock /\ Len(updateChan) >= queueCap) =>
             /\ addErr' # ErrNil
             /\ ~ctxDone => addErr'.kind = ErrQueueFull(1).kind
             /\ updateChan' = updateChan
             /\ updates' = updates
       /\ (clock' # clock /\ addErr' # ErrNil) => (clock' \notin HeldTimestamps')
       /\ (clock' = clock /\ addErr # ErrNil) => (clock \notin HeldTimestamps')
      ]_vars

\* C7 witness: a call rejected with the queue holding 2 x MaxBatchSize updates
C7_Witness ==
    /\ addErr = ErrQueueFull(1) \/ addErr = ErrQueueFull(2)
    /\ Len(updateChan) = queueCap
    /\ queueCap = 2 * config.MaxBatchSize
    /\ ~ctxDone

\* C8 as stated: a sub-batch is handed to the BroadcastManager exactly when its
\* persistence succeeded, by the bulk write or by the per-entity fallback.
C8_BroadcastIffPersisted ==
    pb.pc = "subdone" => (pb.handed <=> pb.subErr = ErrNil)

\* C9: BroadcastBatchUpdates always completes (every send is non-blocking), and a
\* sub-batch whose broadcast dropped messages is still a success: its bulk write
\* is in the repository, processSingleBatch returns nil, FailedUpdates is what it
\* was before the sub-batch; against a repository that never fails ProcessBatch
\* returns nil and FailedUpdates stays 0 however many broadcasts are dropped.
C9_BroadcastIsolated ==
    /\ pb.pc = "bcast" => ENABLED BroadcastStep
    /\ (pb.pc = "subdone" /\ pb.handed) =>
          /\ pb.subErr = ErrNil
          /\ \A v \in DOMAIN Head(pb.batches) : IsWritten(Head(pb.batches), v, "bulk")
          /\ stats.FailedUpdates = pb.failedBefore
    /\ bulkMode = "ok" => (pb.result = ErrNil /\ stats.FailedUpdates = 0 /\ pb.totalErrors = 0)

\* C9 witness: a sub-batch written in bulk whose broadcast lost a message to the
\* full channel
C9_Witness ==
    /\ pb.pc = "subdone"
    /\ pb.handed
    /\ pb.dropped > 0
    /\ Len(broadcast) = BroadcastCap


\* ceil(n / m)
CeilDiv(n, m) == (n + m - 1) \div m

\* C5: splitting a buffer of n >= 1 entries with MaxBatchSize m >= 1 gives
\* ceil(n/m) sub-batches, none larger than m, all but the last of exactly m
\* entries, pairwise disjoint, and together exactly the buffer's entries.
C5_SplitPartition ==
    LET ups == splitArgs.updates
        n == Cardinality(DOMAIN ups)
        m == splitArgs.maxBatchSize
        bs == splitResult
    IN (splitResult # NoSplit /\ n >= 1) =>
          /\ Len(bs) = CeilDiv(n, m)
          /\ \A i \in 1..Len(bs) : Cardinality(DOMAIN bs[i]) <= m
          /\ \A i \in 1..(Len(bs) - 1) : Cardinality(DOMAIN bs[i]) = m
          /\ \A i, j \in 1..Len(bs) : i # j => (DOMAIN bs[i]) \cap (DOMAIN bs[j]) = {}
          /\ UNION {DOMAIN bs[i] : i \in 1..Len(bs)} = DOMAIN ups
          /\ \A i \in 1..Len(bs) : \A v \in DOMAIN bs[i] : bs[i][v] = ups[v]

\* C5 witness: four entries split by three into a full sub-batch and a rest of one
C5_Witness ==
    /\ splitResult # NoSplit
    /\ Cardinality(DOMAIN splitArgs.updates) = 4
    /\ splitArgs.maxBatchSize = 3
    /\ Len(splitResult) = 2
    /\ Cardinality(DOMAIN splitResult[2]) = 1

\* C10: with BackoffMultiplier 1 and only non-Critical calls in a vehicle's window,
\* the latest call of the window was admitted exactly if it was among the window's
\* first BaseRequestsPerHour calls, an admitted call returns retryAfter 0, a
\* rejected one retryAfter > 0, and the window counter never passes the capacity.
C10_FirstCAdmitted ==
    \A v \in DOMAIN vehicleLimits :
        (rlConfig.BackoffMultiplier = <<1, 1>> /\ ~rlHist[v].critical /\ rlResult.vehicleID = v) =>
            /\ rlResult.allowed <=> rlHist[v].calls <= rlConfig.BaseRequestsPerHour
            /\ rlResult.allowed => rlResult.retryAfter = 0
            /\ ~rlResult.allowed => rlResult.retryAfter > 0
            /\ vehicleLimits[v].CurrentRequests
                 = IF rlHist[v].calls <= rlConfig.BaseRequestsPerHour THEN rlHist[v].calls
                   ELSE rlConfig.BaseRequestsPerHour

\* C10 witness: capacity 3, multiplier 1: the fourth call of the window is rejected
C10_Witness ==
    \E v \in DOMAIN vehicleLimits :
        /\ rlConfig.BackoffMultiplier = <<1, 1>>
        /\ rlConfig.BaseRequestsPerHour = 3
        /\ rlResult.vehicleID = v
        /\ ~rlHist[v].critical
        /\ rlHist[v].calls = 4
        /\ vehicleLimits[v].CurrentRequests = 3
        /\ ~rlResult.allowed
        /\ rlResult.retryAfter > 0


\* some call of vehicle v's current window was rejected
RejectedInWindow(v) == rlHist[v].calls > vehicleLimits[v].CurrentRequests

BelowAllThresholds(last, cur) ==
    /\ Abs(cur.FuelLevel - last.FuelLevel) < FuelLevelPercent
    /\ calculateDistance(last.Location, cur.Location) < LocationMeters
    /\ Abs(cur.Speed - last.Speed) < SpeedKmh
    /\ Abs(cur.Odometer - last.Odometer) < OdometerKm
    /\ cur.Status = last.Status

SameFields(last, cur) ==
    /\ cur.FuelLevel = last.FuelLevel
    /\ cur.Location = last.Location
    /\ cur.Speed = last.Speed
    /\ cur.Odometer = last.Odometer
    /\ cur.Status = last.Status

\* C12: for a vehicle with a snapshot, an observation that arrives no later than
\* TimeThreshold after the snapshot was taken, with every delta strictly below its
\* threshold and the same status, is not significant, returns no changes and leaves
\* the stored snapshot, its capture time included, as it was.
C12_BelowThresholdSuppressed ==
    [][\A v \in DOMAIN lastStates :
          (/\ dtCalls' # dtCalls
           /\ dtResult'.vehicleID = v
           /\ now - lastStates[v].LastUpdate <= TimeThreshold
           /\ BelowAllThresholds(lastStates[v], dtResult'.current))
          => (/\ ~dtResult'.significant
              /\ DOMAIN dtResult'.changes = {}
              /\ lastStates' = lastStates)]_vars

\* C12 witness: an observation whose fuel, location and speed all moved, each by less
\* than its threshold, one time threshold after the snapshot: suppressed, snapshot kept
C12_Witness ==
    /\ dtResult.path = "delta"
    /\ ~dtResult.significant
    /\ dtResult.current.FuelLevel # dtResult.prev.FuelLevel
    /\ dtResult.current.Location # dtResult.prev.Location
    /\ dtResult.current.Speed # dtResult.prev.Speed
    /\ dtResult.at - dtResult.prev.LastUpdate = TimeThreshold
    /\ lastStates[dtResult.vehicleID] = dtResult.prev

\* what a forced update does for vehicle v in a step of ShouldUpdate
ForcedFullUpdate(v) ==
    /\ dtResult'.significant
    /\ dtResult'.changes = createFullUpdate(v, dtResult'.current, now)
    /\ lastStates'[v] = createSnapshot(dtResult'.current, now)

\* C13 as stated: for a vehicle with a snapshot, any observation evaluated when
\* now - capturedAt >= TimeThreshold is significant with the full change-set and
\* replaces the snapshot.
C13_Original ==
    [][\A v \in DOMAIN lastStates :
          (/\ dtCalls' # dtCalls
           /\ dtResult'.vehicleID = v
           /\ now - lastStates[v].LastUpdate >= TimeThreshold)
          => ForcedFullUpdate(v)]_vars

\* C13 amended: any observation, even one identical to the snapshot, evaluated
\* when now - capturedAt > TimeThreshold (strictly) is significant with the full
\* change-set and replaces the snapshot; at exactly TimeThreshold the observation
\* is still judged by its deltas.
C13_ForcedAfterThreshold ==
    [][\A v \in DOMAIN lastStates :
          (/\ dtCalls' # dtCalls
           /\ dtResult'.vehicleID = v)
          => /\ now - lastStates[v].LastUpdate > TimeThreshold => ForcedFullUpdate(v)
             /\ now - lastStates[v].LastUpdate = TimeThreshold
                  => dtResult'.changes = deltaChanges(v, lastStates[v], dtResult'.current, now)]_vars

\* C13 witness: an observation identical to the snapshot, forced by time
C13_Witness ==
    /\ dtResult.path = "time"
    /\ SameFields(dtResult.prev, dtResult.current)
    /\ dtResult.significant
    /\ DOMAIN dtResult.changes = FullUpdateKeys
    /\ dtResult.changes["updateType"] = "full"
    /\ lastStates[dtResult.vehicleID].LastUpdate = dtResult.at
    /\ dtResult.at > dtResult.prev.LastUpdate + TimeThreshold

\* C14: a subscriber whose filter has the vehicle ID allow-list {A} is never enqueued
\* a message about another vehicle, and a subscriber without filters is enqueued every
\* message the manager takes from the broadcast channel while its send queue has room.
AllowListOnly(c) ==
    /\ c \in DOMAIN clients
    /\ clients[c].Filters.VehicleIDs # {}

Unfiltered(c) ==
    /\ c \in DOMAIN clients
    /\ clients[c].Filters = NoFilters

DroppedFor(c) ==
    wsHist.dropped[c]
      \cup {m \in wsHist.chanDropped : shouldSendToClient(clients[c].Filters, m)}

C15_CriticalNotOvertaken ==
    \A c \in DOMAIN clients :
        \A critical \in DroppedFor(c), low \in wsHist.written[c] :
            ~ /\ critical.Priority = PriorityCritical
              /\ low.Priority = PriorityLow
              /\ critical.Timestamp = low.Timestamp
              /\ c \in wsHist.fullAt[critical.Timestamp]

\* C16: after UpdateVehicleState for a vehicle the scheduler did not know, a schedule
\* entry exists and a ticker runs at the nominal interval of the state, so that the
\* callback will be invoked.
C16_TimerStartedForNewVehicle ==
    [][/\ schedHist'.calls = schedHist.calls + 1
       /\ ~schedHist'.last.known
       => LET v == schedHist'.last.vehicleID
          IN /\ v \in DOMAIN schedVehicles'
             /\ schedVehicles'[v].ticker = "running"
             /\ schedVehicles'[v].tickerInterval =
                   frequencies[schedHist'.last.newState].Interval
             /\ \E g \in DOMAIN goroutines' : goroutines'[g].vehicleID = v]_vars

\* C17: UpdateVehicleState with a state different from the current one leaves
\* ConsecutiveIdle at 0 and restarts the ticker at the nominal interval of the new
\* state, for every target state.
C17_StateChangeResets ==
    [][/\ schedHist'.calls = schedHist.calls + 1
       /\ schedHist'.last.changed
       /\ schedCtx' # "panicked"
       => LET v == schedHist'.last.vehicleID
              freq == frequencies[schedHist'.last.newState]
          IN /\ schedVehicles'[v].ConsecutiveIdle = 0
             /\ schedVehicles'[v].UpdateInterval = freq.Interval
             /\ schedVehicles'[v].ticker = "running"
             /\ schedVehicles'[v].tickerInterval = freq.Interval]_vars

\* C18: every schedule entry has MinInterval <= UpdateInterval <= MaxInterval for its
\* current state, after any sequence of UpdateVehicleState calls and ticker fires.
C18_IntervalWithinBounds ==
    \A v \in DOMAIN schedVehicles :
        LET freq == frequencies[schedVehicles[v].CurrentState]
        IN /\ freq.MinInterval <= schedVehicles[v].UpdateInterval
           /\ schedVehicles[v].UpdateInterval <= freq.MaxInterval

\* C19: once Stop has returned (and UpdateVehicleState is not called again) no callback
\* is invoked and no ticker is armed again, whatever a goroutine was doing when Stop
\* was called.
C19_QuietAfterStop ==
    schedCtx = "cancelled" /\ schedHist.lateCalls = 0 =>
        /\ schedHist.lateFires = 0
        /\ schedHist.lateRearms = 0
        /\ \A v \in DOMAIN schedVehicles : schedVehicles[v].ticker # "running"

\* C20: ProcessVehicleUpdate evaluates an observation with the DeltaTracker before the
\* rate limiter, so the rate limiter is consulted for significant observations only:
\* an observation the DeltaTracker suppresses leaves the number of requests counted
\* against the vehicle's current window unchanged.
C20_SuppressedKeepsBudget ==
    [][/\ svcStats'.DeltaSkips = svcStats.DeltaSkips + 1
       /\ svcResult'.vehicleID \in DOMAIN vehicleLimits
       /\ now - vehicleLimits[svcResult'.vehicleID].WindowStart < WindowTicks
       => vehicleLimits'[svcResult'.vehicleID].CurrentRequests =
             vehicleLimits[svcResult'.vehicleID].CurrentRequests]_vars

\* C21: while the worker runs, every update it has moved into the pending buffer is
\* eventually flushed: the buffer, which a flush takes whole, does not stay non-empty
\* for ever.
C21_EventuallyFlushed == (updates # EmptyMap) ~> (updates = EmptyMap)

\* the worker is flushing a buffer that had not reached MaxBatchSize: a timer, not
\* the size, triggered the flush
C21_Witness ==
    /\ worker = [pc |-> "processing", final |-> FALSE]
    /\ pb.nUpdates > 0
    /\ pb.nUpdates < config.MaxBatchSize

\* C22: RequestWithBackoff always terminates: it makes at most maxRetries admission
\* attempts, invokes requestFunc at most once and only after an admitted attempt,
\* returning its result; it returns the context's error only from the wait, and does
\* so when ctx was cancelled before the timer expired; it returns the
\* rate-limit-exceeded error only after maxRetries rejected attempts.
BackoffContract ==
    /\ rwb.attempts <= maxRetries
    /\ rwb.actionCalls <= 1
    /\ rwb.actionCalls = 1 => rwb.admitted /\ rwb.result = rwb.actionResult
    /\ rwb.pc = "action" => rwb.admitted
    /\ rwb.result = "ctxErr" => rwb.ctxDone /\ ~rwb.admitted /\ rwb.actionCalls = 0
    /\ rwb.result = "rateLimitExceeded" =>
          rwb.attempts = maxRetries /\ ~rwb.admitted /\ rwb.actionCalls = 0
    /\ rwb.pc = "returned" /\ rwb.cancelledInWait => rwb.result = "ctxErr"
    /\ rwb.pc = "returned" /\ ~rwb.admitted /\ rwb.result # "ctxErr" =>
          rwb.result = "rateLimitExceeded"

C22_BackoffTerminates ==
    /\ []BackoffContract
    /\ (rwb.pc # "idle") ~> (rwb.pc = "returned")

\* a second call that was rejected on each of its maxRetries attempts, waited after
\* each, and returned the rate-limit-exceeded error without running requestFunc
C22_Witness ==
    /\ rwb.calls = 2
    /\ rwb.pc = "returned"
    /\ rwb.result = "rateLimitExceeded"
    /\ rwb.attempts = maxRetries
    /\ rwb.actionCalls = 0


(* ----------------- websocket.Manager: registry lifecycle -------------- *)
\* the step is one run of healthCheck
SweepStep == wsReg'.sweeps = wsReg.sweeps + 1

\* the clients whose LastPing is more than 90 s old
StaleClients == {c \in DOMAIN clients : now - clients[c].LastPing > PingTimeoutTicks}

C25_QueuesClosedOnce == ~wsReg.sentAfterClose /\ ~wsReg.doubleClose

\* the fields of every registered client and whether its Send queue is closed
SubscriberState ==
    [c \in DOMAIN clients |->
        [Filters |-> clients[c].Filters, IsActive |-> clients[c].IsActive,
         LastPing |-> clients[c].LastPing, Closed |-> c \in wsReg.closed]]

\* the step is one case of the select in Manager.run
RunLoopStep ==
    \/ ManagerReceive
    \/ \E c \in WSClients : RegisterClient(c, NoFilters)
    \/ \E c \in WSClients : ManagerUnregister(c)
    \/ HealthCheck

\* C30: registry membership, Filters, IsActive, LastPing and the open/closed state of
\* Send change only in steps of Manager.run
C30_OnlyRunMutates == [][SubscriberState' # SubscriberState => RunLoopStep]_vars

(* ------------------- ProcessBatch: the buffer swap --------------------- *)
\* the number of taken batches that hold the entry e
TimesTaken(e) ==
    Cardinality({i \in 1..Len(flush.taken) :
                    /\ e.vehicleID \in DOMAIN flush.taken[i].batch
                    /\ flush.taken[i].batch[e.vehicleID] = e.update})

InBuffer(e) == e.vehicleID \in DOMAIN updates /\ updates[e.vehicleID] = e.update

\* every entry put into the buffer and not replaced there by a later update of the
\* same vehicle is either still in the buffer or in exactly one taken batch
EachEntryOnce ==
    /\ \A e \in flush.added \ flush.replaced :
          IF InBuffer(e) THEN TimesTaken(e) = 0 ELSE TimesTaken(e) = 1
    /\ \A e \in flush.replaced : TimesTaken(e) = 0

\* the step swaps the buffer out
SwapStep == Len(flush'.taken) = Len(flush.taken) + 1

\* C24: under every interleaving of ProcessBatch calls by the worker and by a direct
\* caller with additions, every entry of the pending buffer goes to exactly one
\* call's batch, the batch of a call is the whole buffer, and the buffer is empty
\* right after the swap
C24_SwapTakesWholeBuffer ==
    /\ []EachEntryOnce
    /\ [][SwapStep => /\ flush'.taken[Len(flush'.taken)].batch = updates
                      /\ updates' = EmptyMap]_vars

\* both callers have taken a non-empty batch and an update was added in between
C24_Witness ==
    /\ \E i, j \in 1..Len(flush.taken) :
          /\ flush.taken[i].by = "worker" /\ flush.taken[j].by = "direct"
          /\ flush.taken[i].batch # EmptyMap /\ flush.taken[j].batch # EmptyMap
    /\ flush.pc["worker"] = "process"
    /\ updates # EmptyMap

(* ------------------ AdaptiveScheduler: one worker per vehicle ---------- *)
\* C26: once startScheduler has restarted a vehicle's timer, the goroutine of the
\* previous timer takes no further tick (no callback) and makes no further
\* adjustUpdateFrequency and ticker.Reset
C26_SupersededWorkerQuiet == schedHist.staleFires = 0 /\ schedHist.staleAdjusts = 0

(* ------------- OptimizedTelemetryService: calls that fail -------------- *)
\* the step is a ProcessVehicleUpdate call that returns an error
SvcCallFails ==
    /\ svcStats'.TotalUpdatesRequested = svcStats.TotalUpdatesRequested + 1
    /\ svcResult'.outcome \in {"rejected", "queueFull", "stopped"}

\* C27: a ProcessVehicleUpdate call that returns an error (rate limit rejection or
\* AddUpdate refusing the update) leaves the DeltaTracker's snapshots as they were
C27_FailedCallKeepsSnapshot == [][SvcCallFails => lastStates' = lastStates]_vars

(* ------------------- processSingleBatch: the retries ------------------- *)
\* the waits before retries 1..n of a sub-batch
DoublingWaits(n) == [k \in 1..n |-> config.RetryBackoff * Pow(2, k - 1)]

\* no vehicle of the sub-batch was handed to UpdateVehicle twice
FallbackOnce ==
    /\ Len(pb.singleCalls) = Cardinality(Range(pb.singleCalls))
    /\ Range(pb.singleCalls) \subseteq DOMAIN Head(pb.batches)

\* C28: without a shutdown, a sub-batch whose bulk write fails every time has had
\* RetryAttempts + 1 bulk attempts, the k-th retry after a wait of RetryBackoff * 2^(k-1),
\* and then one fallback pass over its vehicles; the fallback never starts before the
\* last bulk attempt failed, and a sub-batch whose bulk write succeeded had no fallback
C28_RetriesThenFallback ==
    /\ pb.pc \in {"fallback", "subdone"} /\ pb.path = "fallback" =>
          /\ pb.bulkCalls = config.RetryAttempts + 1
          /\ pb.waits = DoublingWaits(config.RetryAttempts)
          /\ FallbackOnce
          /\ pb.pc = "subdone" => Range(pb.singleCalls) = DOMAIN Head(pb.batches)
    /\ pb.path = "bulk" =>
          /\ pb.singleCalls = <<>>
          /\ pb.bulkCalls <= config.RetryAttempts + 1
          /\ pb.waits = DoublingWaits(pb.bulkCalls - 1)
    /\ pb.singleCalls # <<>> => pb.path = "fallback"

\* a sub-batch of two vehicles went through three retries and the fallback
C28_Witness ==
    /\ pb.pc = "subdone"
    /\ pb.path = "fallback"
    /\ config.RetryAttempts = MaxRetryAttempts
    /\ Len(pb.singleCalls) = 2
    /\ ~ctxDone

(* --------------------- DeltaTracker: the change-set -------------------- *)
\* the keys of the changes map that carry a field of the observation
FieldKeys == {"fuelLevel", "location", "speed", "status", "odometer"}

\* the field keys whose threshold the latest observation tripped
TrippedKeys ==
    LET prev == dtResult.prev
        cur == dtResult.current
    IN {k \in FieldKeys :
          CASE k = "fuelLevel" -> Abs(cur.FuelLevel - prev.FuelLevel) >= FuelLevelPercent
            [] k = "location" -> Abs(cur.Location - prev.Location) >= LocationMeters
            [] k = "speed" -> Abs(cur.Speed - prev.Speed) >= SpeedKmh
            [] k = "status" -> cur.Status # prev.Status
            [] k = "odometer" -> Abs(cur.Odometer - prev.Odometer) >= OdometerKm}

\* the value of the observation's field behind a key
ObservedValue(cur, k) ==
    CASE k = "fuelLevel" -> cur.FuelLevel
      [] k = "location" -> cur.Location
      [] k = "speed" -> cur.Speed
      [] k = "status" -> cur.Status
      [] k = "odometer" -> cur.Odometer

\* the latest ShouldUpdate call compared fields and found one over its threshold
JudgedByFields == dtResult.path = "delta" /\ dtResult.significant

\* C29: an observation judged within the time threshold that trips a field threshold
\* returns a changes map whose field keys are exactly the tripped fields, each with
\* the observed value, and the snapshot becomes the whole observation
C29_ChangeSetIsTrippedFields ==
    JudgedByFields =>
        /\ TrippedKeys # {}
        /\ DOMAIN dtResult.changes \cap FieldKeys = TrippedKeys
        /\ \A k \in TrippedKeys : dtResult.changes[k] = ObservedValue(dtResult.current, k)
        /\ lastStates[dtResult.vehicleID] = createSnapshot(dtResult.current, dtResult.at)

\* the observation tripped some field and moved another one by less than its threshold
C29_Witness ==
    /\ JudgedByFields
    /\ "fuelLevel" \notin DOMAIN dtResult.changes
    /\ dtResult.current.FuelLevel # dtResult.prev.FuelLevel
    /\ lastStates[dtResult.vehicleID].FuelLevel = dtResult.current.FuelLevel

(* ---------------- websocket.Manager: order of delivery ----------------- *)
\* the updates of BroadcastBatchUpdates call n that are not yet taken by Manager.run
Upstream(n) ==
    {wsCall.sendq[i] : i \in {j \in 1..Len(wsCall.sendq) : wsCall.sendq[j].Timestamp = n}}
      \cup {broadcast[i] : i \in {j \in 1..Len(broadcast) : broadcast[j].Timestamp = n}}

\* no Medium/Low update of a call is on a client's queue, or written, while a
\* Critical/High update of the same call is still behind it
HighBeforeLow ==
    \A c \in WSClients :
        /\ \A low \in wsHist.enqueued[c] :
              IsLowPass(low) => \A high \in Upstream(low.Timestamp) : ~IsHighPass(high)
        /\ c \in DOMAIN clients =>
              \A low \in wsHist.written[c], i \in 1..Len(clients[c].Send) :
                  ~ /\ IsLowPass(low)
                    /\ IsHighPass(clients[c].Send[i])
                    /\ clients[c].Send[i].Timestamp = low.Timestamp

\* a client's queue changes by an append at its tail or by the writer taking its head
QueueIsFifo ==
    \A c \in DOMAIN clients \cap DOMAIN clients' :
        \/ clients'[c].Send = clients[c].Send
        \/ \E m \in wsHist'.enqueued[c] : clients'[c].Send = Append(clients[c].Send, m)
        \/ /\ clients[c].Send # <<>>
           /\ clients'[c].Send = Tail(clients[c].Send)
           /\ wsHist'.written[c] = wsHist.written[c] \cup {Head(clients[c].Send)}

DeliveryStep == broadcast # <<>> /\ broadcast' = Tail(broadcast)

\* what a delivery does to each client the update matches
SkipsFullQueues ==
    /\ DOMAIN clients' = DOMAIN clients
    /\ \A c \in DOMAIN clients :
          IF ~shouldSendToClient(clients[c].Filters, Head(broadcast))
          THEN clients'[c] = clients[c]
          ELSE IF Len(clients[c].Send) >= ClientSendCap
          THEN clients'[c] = [clients[c] EXCEPT !.IsActive = FALSE]
          ELSE clients'[c] = [clients[c] EXCEPT !.Send = Append(@, Head(broadcast))]

LimitAtCall ==
    LET v == rlResult'.vehicleID
        l == IF v \in DOMAIN vehicleLimits THEN vehicleLimits[v]
             ELSE NewVehicleRateLimit(rlConfig, v, now)
    IN [counter |-> IF now - l.WindowStart >= WindowTicks THEN 0 ELSE l.CurrentRequests,
        level |-> IF now - l.LastRejection >= ResetTicks THEN 0 ELSE l.BackoffLevel]

\* baseCapacity x backoffMultiplier^(-backoffLevel), rounded down
EffectiveCapacity(level) ==
    (rlConfig.BaseRequestsPerHour * Pow(rlConfig.BackoffMultiplier[2], level))
        \div Pow(rlConfig.BackoffMultiplier[1], level)

AdmittedBelowCapacity ==
    rlCalls' = rlCalls + 1 =>
        LET at == LimitAtCall
            cap == EffectiveCapacity(at.level)
                     + (IF rlResult'.priority = TelemetryPriorityCritical
                        THEN rlConfig.BurstAllowance ELSE 0)
        IN /\ rlResult'.allowed <=> at.counter < cap
           /\ ~rlResult'.allowed =>
                 vehicleLimits'[rlResult'.vehicleID].CurrentRequests = at.counter

BackoffAtCall ==
    LET v == rlResult'.vehicleID
        l == IF v \in DOMAIN vehicleLimits THEN vehicleLimits[v]
             ELSE NewVehicleRateLimit(rlConfig, v, now)
        reset == now - l.LastRejection >= ResetTicks
    IN [rejects |-> IF reset THEN 0 ELSE l.ConsecutiveRejects,
        level |-> IF reset THEN 0 ELSE l.BackoffLevel]

BackoffLevelInRange ==
    \A v \in DOMAIN vehicleLimits :
        /\ vehicleLimits[v].BackoffLevel \in 0..MaxBackoffLevel
        /\ vehicleLimits[v].BackoffLevel <= vehicleLimits[v].ConsecutiveRejects

RejectionRaisesBackoff ==
    rlCalls' = rlCalls + 1 /\ ~rlResult'.allowed =>
        LET at == BackoffAtCall
            after == vehicleLimits'[rlResult'.vehicleID]
            delay == (after.ConsecutiveRejects * BaseRetry
                        * Pow(rlConfig.BackoffMultiplier[1], after.BackoffLevel))
                       \div Pow(rlConfig.BackoffMultiplier[2], after.BackoffLevel)
        IN /\ after.ConsecutiveRejects = at.rejects + 1
           /\ after.BackoffLevel = IF at.level < MaxBackoffLevel THEN at.level + 1
                                   ELSE MaxBackoffLevel
           /\ rlResult'.retryAfter = IF delay > MaxRetry THEN MaxRetry ELSE delay
           /\ rlResult'.retryAfter > 0
           /\ rlResult'.retryAfter <= MaxRetry

\* C34: every rejection adds one to ConsecutiveRejects and one to BackoffLevel up to 5;
\* BackoffLevel is always within 0..5 and at most ConsecutiveRejects; the retryAfter of
\* a rejection is min(15 min, ConsecutiveRejects x 30 s x BackoffMultiplier^BackoffLevel),
\* which is positive
C34_BackoffAndRetryAfter == []BackoffLevelInRange /\ [][RejectionRaisesBackoff]_vars

\* a rejection at the highest backoff level, answered with the capped delay
C34_Witness ==
    /\ rlResult.vehicleID \in DOMAIN vehicleLimits
    /\ ~rlResult.allowed
    /\ vehicleLimits[rlResult.vehicleID].BackoffLevel = MaxBackoffLevel
    /\ vehicleLimits[rlResult.vehicleID].ConsecutiveRejects > MaxBackoffLevel
    /\ rlResult.retryAfter = MaxRetry

\* on every call the backoff counters restart from 0 exactly when BackoffResetDuration
\* has passed since LastRejection, whatever happens to the window; a call made sooner
\* never lowers them
BackoffResetByAge ==
    rlCalls' = rlCalls + 1 =>
        LET v == rlResult'.vehicleID
            before == IF v \in DOMAIN vehicleLimits THEN vehicleLimits[v]
                      ELSE NewVehicleRateLimit(rlConfig, v, now)
            after == vehicleLimits'[v]
            aged == now - before.LastRejection >= ResetTicks
            bump == IF rlResult'.allowed THEN 0 ELSE 1
        IN /\ aged => /\ after.ConsecutiveRejects = bump
                      /\ after.BackoffLevel = bump
           /\ ~aged => /\ after.ConsecutiveRejects = before.ConsecutiveRejects + bump
                       /\ after.BackoffLevel >= before.BackoffLevel
                       /\ after.BackoffLevel <= before.BackoffLevel + bump

\* C35: an admission call resets BackoffLevel and ConsecutiveRejects to 0 exactly when
\* now - LastRejection >= BackoffResetDuration at that call, independently of the window
\* reset; calls that follow a rejection sooner than that never reset the backoff
C35_BackoffResetByAge == [][BackoffResetByAge]_vars

\* a vehicle that was rejected, then admitted ResetTicks later in the same window with
\* its backoff cleared
C35_Witness ==
    /\ rlResult.vehicleID \in DOMAIN vehicleLimits
    /\ rlResult.allowed
    /\ LET l == vehicleLimits[rlResult.vehicleID]
       IN /\ l.LastRejection # ZeroTime
          /\ now - l.LastRejection = ResetTicks
          /\ l.WindowStart = 0
          /\ l.BackoffLevel = 0
          /\ l.ConsecutiveRejects = 0

\* an admission in a fresh window that keeps the backoff of a recent rejection
WindowResetKeepsBackoff ==
    /\ rlResult.vehicleID \in DOMAIN vehicleLimits
    /\ rlResult.allowed
    /\ LET l == vehicleLimits[rlResult.vehicleID]
       IN /\ l.WindowStart = now
          /\ l.WindowStart > 0
          /\ l.CurrentRequests = 1
          /\ l.BackoffLevel > 0

(* --------------------- DefaultBatchProcessor: statistics --------------- *)
\* the step in which ProcessBatch, having processed its last sub-batch, calls
\* updateStats and returns
FlushReturns == pb.pc = "subdone" /\ pb'.pc = "idle"

\* the step in which the worker calls ProcessBatch on an empty buffer and gets nil:
\* the record of the previous call is replaced, or the worker exits after its final one
EmptyFlush ==
    /\ worker.pc = "select"
    /\ updates = EmptyMap
    /\ updates' = EmptyMap
    /\ pb'.pc = "idle"
    /\ (pb' # pb \/ worker'.pc = "exited")

StatsFollowFlush ==
    /\ FlushReturns =>
          /\ pb.nUpdates > 0
          /\ stats'.BatchesProcessed = stats.BatchesProcessed + pb.nBatches
          /\ stats'.TotalUpdates = stats.TotalUpdates + pb.nUpdates
          /\ stats'.FailedUpdates = stats.FailedUpdates
          /\ stats'.AverageSize
                = Float64Quotient(stats'.TotalUpdates, stats'.BatchesProcessed)
          /\ stats'.ErrorRate = Float64Quotient(stats'.FailedUpdates, stats'.TotalUpdates)
    /\ ~FlushReturns =>
          /\ stats'.BatchesProcessed = stats.BatchesProcessed
          /\ stats'.TotalUpdates = stats.TotalUpdates
          /\ stats'.AverageSize = stats.AverageSize
          /\ stats'.ErrorRate = stats.ErrorRate
    /\ EmptyFlush =>
          /\ stats' = stats
          /\ repoWrites' = repoWrites
          /\ pb'.bulkCalls = 0
          /\ pb'.singleCalls = <<>>
          /\ pb'.result = ErrNil

\* C36: a flush of n > 0 entries in b sub-batches adds b to BatchesProcessed and n to
\* TotalUpdates whatever the writes returned, and leaves AverageSize = TotalUpdates /
\* BatchesProcessed and ErrorRate = FailedUpdates / TotalUpdates; a flush of an empty
\* buffer calls no repository method and changes no statistic
C36_StatsFollowFlush == [][StatsFollowFlush]_vars

\* after two flushes, one of which lost an update: a non-zero error rate and an
\* average size computed from the advanced counters
C36_Witness ==
    /\ pb.pc = "idle"
    /\ stats.BatchesProcessed >= 2
    /\ stats.FailedUpdates >= 1
    /\ stats.TotalUpdates > stats.FailedUpdates
    /\ stats.ErrorRate = Float64Quotient(stats.FailedUpdates, stats.TotalUpdates)
    /\ stats.AverageSize = Float64Quotient(stats.TotalUpdates, stats.BatchesProcessed)

\* a flush that was split into more than one sub-batch has returned
SplitFlushCounted ==
    /\ pb.pc = "idle"
    /\ stats.BatchesProcessed >= 2
    /\ stats.TotalUpdates >= 2
    /\ stats.AverageSize[2] > 1

(* ------------- AdaptiveScheduler: the interval from fire to fire ------- *)
\* min(MaxInterval, Interval x (1 + 0.2 x cycles))
IdleInterval(state, cycles) ==
    LET freq == frequencies[state]
        scaled == (freq.Interval * (5 + cycles)) \div 5
    IN IF scaled > freq.MaxInterval THEN freq.MaxInterval ELSE scaled

IsIdling(state) == state \in {StateIdle, StateParked}

\* a goroutine goes from the callback to as.mu, or from as.mu back to its select
FireStep ==
    \A g \in DOMAIN goroutines :
        /\ goroutines[g].pc # "lock" /\ goroutines'[g].pc = "lock" =>
              /\ goroutines[g].pc = "callback"
              /\ schedHist'.fires = schedHist.fires + 1
              /\ schedVehicles' = schedVehicles
        /\ goroutines[g].pc = "lock" /\ goroutines'[g].pc # "lock" =>
              LET before == schedVehicles[goroutines[g].vehicleID]
                  after == schedVehicles'[goroutines[g].vehicleID]
              IN /\ after.CurrentState = before.CurrentState
                 /\ IF IsIdling(before.CurrentState)
                    THEN /\ after.ConsecutiveIdle = before.ConsecutiveIdle + 1
                         /\ after.UpdateInterval
                               = IdleInterval(after.CurrentState, after.ConsecutiveIdle)
                         /\ after.UpdateInterval >= before.UpdateInterval
                    ELSE /\ after.ConsecutiveIdle = 0
                         /\ after.UpdateInterval = frequencies[after.CurrentState].Interval
                 /\ after.tickerInterval = after.UpdateInterval

\* a schedule whose timer was started: outside idle and parked the idle counter is 0;
\* in idle and parked the interval is MaxInterval once enough cycles were counted
TimedSchedules ==
    \A v \in DOMAIN schedVehicles :
        LET schedule == schedVehicles[v]
            freq == frequencies[schedule.CurrentState]
        IN /\ ~IsIdling(schedule.CurrentState) => schedule.ConsecutiveIdle = 0
           /\ IsIdling(schedule.CurrentState) /\ schedule.ticker # "nil"
                 /\ schedule.ConsecutiveIdle * freq.Interval
                       >= 5 * (freq.MaxInterval - freq.Interval)
                 => schedule.UpdateInterval = freq.MaxInterval

\* C37: in idle and parked every timer fire runs the callback, then adds one to
\* ConsecutiveIdle and sets UpdateInterval to min(MaxInterval, Interval x (1 + 0.2 x
\* ConsecutiveIdle)), so the interval never decreases and is MaxInterval after enough
\* fires; in any other state a fire sets UpdateInterval to Interval and ConsecutiveIdle
\* is 0
C37_IntervalGrowsWhileIdle == []TimedSchedules /\ [][FireStep]_vars

\* a fire in idle or parked has just brought the interval to MaxInterval
C37_Witness ==
    \E v \in DOMAIN schedVehicles :
        LET schedule == schedVehicles[v]
            freq == frequencies[schedule.CurrentState]
        IN /\ IsIdling(schedule.CurrentState)
           /\ schedHist.fires >= 2
           /\ schedule.UpdateInterval = freq.MaxInterval
           /\ IdleInterval(schedule.CurrentState, schedule.ConsecutiveIdle - 1)
                 < freq.MaxInterval
           /\ \E g \in DOMAIN goroutines : goroutines[g].pc = "readTicker"

(* ------------- websocket.Manager: register and unregister -------------- *)
\* a goroutine is blocked in a send on m.register or m.unregister for this client
RequestPending(c) == c \in Registering \/ c \in wsReg.unregister

\* C38: RegisterClient and UnregisterClient always return, and a client's reader always
\* gets past its deferred unregister request: every send on m.register and m.unregister
\* is eventually taken, whether the manager was never started, is running, or was
\* stopped with clients in the registry
C38_RequestsReturn == \A c \in WSClients : RequestPending(c) ~> ~RequestPending(c)

\* RegisterClient waits on a manager that was never started
RegisterWaitsForStart == \E c \in WSClients : c \in Registering /\ ~wsRunning

\* a request on m.unregister, from UnregisterClient or from a reader that ended after
\* Stop, is pending and Manager.run has returned
UnregisterAfterLoopExit ==
    \E c \in WSClients : c \in wsReg.unregister /\ c \in DOMAIN clients /\ wsReg.exited

\* RegisterClient waits on a manager whose loop has returned
RegisterAfterLoopExit == \E c \in WSClients : c \in Registering /\ wsReg.exited

(* ------------ DefaultBatchProcessor: priority of a broadcast ----------- *)
PriorityRank(p) ==
    CASE p = PriorityCritical -> 3
      [] p = PriorityHigh -> 2
      [] p = PriorityMedium -> 1
      [] OTHER -> 0

\* the priorities the fields of a broadcast message imply, each on its own
ImpliedPriorities(m) ==
    LET has(k) == k \in DOMAIN m.Data IN
    {PriorityMedium}
      \cup (IF has("fuelLevel") /\ m.Data["fuelLevel"] < 10 THEN {PriorityCritical} ELSE {})
      \cup (IF has("fuelLevel") /\ m.Data["fuelLevel"] < 20 THEN {PriorityHigh} ELSE {})
      \cup (IF has("speed") /\ m.Data["speed"] > 80 THEN {PriorityHigh} ELSE {})
      \cup (IF has("status") /\ m.Data["status"] \in {"maintenance", "offline"}
            THEN {PriorityHigh} ELSE {})

HighestPriority(ps) == CHOOSE p \in ps : \A q \in ps : PriorityRank(q) <= PriorityRank(p)

\* the messages ProcessBatch has built and not yet handed over, and those in m.broadcast
BuiltMessages == Range(pb.sendq) \cup Range(broadcast)

\* C39: a broadcast message built from a flushed update has the highest of the
\* priorities its fields imply; in particular fuelLevel < 10 gives Critical whatever
\* else the update carries
C39_HighestImpliedPriority ==
    \A m \in BuiltMessages : m.Priority = HighestPriority(ImpliedPriorities(m))

\* a message whose only priority-bearing field is a fuel level below 10
FuelAloneIsCritical ==
    \E m \in BuiltMessages :
        /\ DOMAIN m.Data = {"fuelLevel"}
        /\ m.Data["fuelLevel"] < 10
        /\ m.Priority = PriorityCritical

\* every message is at most as urgent as its fields imply, and exactly as urgent when
\* no field implies Critical together with a later check that assigns High
PriorityOfLastCheck ==
    \A m \in BuiltMessages :
        LET has(k) == k \in DOMAIN m.Data
            later == \/ has("speed") /\ m.Data["speed"] > 80
                     \/ has("status") /\ m.Data["status"] \in {"maintenance", "offline"}
        IN m.Priority = IF later THEN PriorityHigh
                        ELSE HighestPriority(ImpliedPriorities(m))

(* ------------- AdaptiveScheduler: operations after Stop ---------------- *)
\* no close(schedule.stopChan) has hit a channel that was closed already
NoDoubleClose == schedCtx # "panicked"

\* startScheduler launches no goroutine once Stop has cancelled the context
NoWorkerAfterStop == schedCtx = "cancelled" => Len(goroutines') = Len(goroutines)

\* C40: Stop and UpdateVehicleState may be called in any order and any number of times:
\* a second Stop, or a state change after Stop, never closes a stop channel that is
\* closed already, and no timer goroutine is started after the shutdown
C40_SafeInAnyOrder == []NoDoubleClose /\ [][NoWorkerAfterStop]_vars

\* a goroutine launched after Stop has run the callback
WorkerStartedAfterStopFires ==
    /\ schedCtx = "cancelled"
    /\ schedHist.lateCalls > 0
    /\ schedHist.lateFires > 0
    /\ Len(goroutines) = 1

\* the process has panicked although UpdateVehicleState was not called after Stop:
\* the second Stop closed the stop channels again
SecondStopPanics == schedCtx = "panicked" /\ schedHist.lateCalls = 0

====
